---- MODULE Spec2Model ----
(***************************************************************************)
(* A model of sqlfluff's core linter (src/sqlfluff/core/linter.py):        *)
(*   - the fix loop of Linter.lint_string,                                 *)
(*   - the patch deriver and source reconstruction of                      *)
(*     LintedFile.fix_string,                                              *)
(*   - the violation filter LintedFile.get_violations / check_tuples.      *)
(***************************************************************************)
EXTENDS Integers, Sequences, FiniteSets, TLC

(***************************************************************************)
(* Bounds of the model.                                                    *)
(***************************************************************************)
\* the configured runaway_limit ranges over 0..MaxLimit
MaxLimit == 2
\* raw texts of trees are numbered 0..MaxRaw
MaxRaw == 2
\* distinguishable edit sets are numbered 1..MaxFix
MaxFix == 2

VARIABLES
    \* ---- Linter.lint_string: the fix loop --------------------------------
    pc,                      \* position in lint_string
    ruleset,                 \* self.get_ruleset(config): the list of rule codes
    fix,                     \* the fix argument
    loop_limit,              \* config.get("runaway_limit")
    working,                 \* the working tree
    previous_versions,       \* set of raw texts seen
    linting_errors,          \* violations accumulated over all iterations
    last_fixes,              \* the last edit set that passed the repeat guard
    fix_loop_idx,            \* iteration counter
    changed,                 \* was a tree committed in this iteration
    crawler,                 \* index in ruleset of the next rule to crawl
    initial_linting_errors,  \* snapshot of round 1
    initial_bound,           \* is the name initial_linting_errors bound yet
    parsed,                  \* the tree handed to LintedFile
    linted_file,             \* the returned LintedFile (None until returned)
    \* ---- history of the run (observers, never read by the program) -------
    first_pass,              \* violations the rules returned while fix_loop_idx = 1
    crawled,                 \* number of iterations in which the rule list was crawled
    versions,                \* the committed trees, in order (first: parsed tree)
    every_crawl_committed,   \* every crawl so far committed a new tree
    round_skipped,           \* was an edit set skipped by a guard in this iteration
    exit_kind,               \* how the while loop was left
    crawl_memo,              \* the edits each rule proposed on each tree it crawled
    run,                     \* 1: first lint_string call, 2: the call on its result
    first_run,               \* how the first call ended and the tree it returned
    \* ---- LintedFile.fix_string --------------------------------------------
    fs_pc,                   \* position in fix_string
    templated_file,          \* self.templated_file: source_str, templated_str, sliced_file
    tree,                    \* self.tree, the fixed tree
    untouchable_slices,      \* templated_file.untouchable_slices(), as far as not popped
    templated_patches,       \* patches in templated space, sorted by start
    patches,                 \* patches in source space
    patch_idx,               \* index in patches of the next patch of the sweep
    slice_buff,              \* the slice buffer
    source_idx,              \* source position the slice buffer has reached
    fix_string_result,       \* the returned (str_buff, changed) pair
    \* history: what untouchable_slices() returned when fix_string was called
    untouchables_at_call,
    \* history: for each slot of slice_buff the index in patches of the patch
    \* that line 291 appended it for, 0 for a slot of lines 269-277 and 295
    slot_patch,
    \* LintedFile.check_tuples
    vs_pc,                   \* position in check_tuples
    violations,              \* LintedFile.violations
    ignore_mask,             \* LintedFile.ignore_mask
    check_tuples_result,     \* what check_tuples returned or raised
    get_violations_args,     \* the arguments of a call of get_violations
    get_violations_result,   \* what that call returned
    \* ---- Linter.parse_string and the head of lint_string -----------------
    lex_tokens,              \* tokens: what the lexer left (None: no tokens)
    parse_vs,                \* violations of parse_string, vs of lint_string
    ignore_buff,             \* the noqa entries found in the parsed tree
    \* history: the stages that were run, and what the templater returned
    stages,
    templater_violations,
    \* ---- Linter.lint_paths, lint_path, paths_from_path, parse_path --------
    op,                      \* the operation called: lint_paths or parse_path
    disk,                    \* what is at each path
    paths,                   \* the paths argument
    ignore_non_existent_files,
    b_pc,                    \* position in the operation
    path_idx,                \* index in paths of the current path
    fnames,                  \* what paths_from_path returned for the current path
    fname_idx,               \* index in fnames of the current file
    linted_path,             \* the LintedPath of lint_path
    result,                  \* the LintingResult of lint_paths: its paths
    open_files,              \* the files that are open
    exc,                     \* the exception that left the operation
    yielded,                 \* what the caller of parse_path holds
    \* ---- LintingResult ---------------------------------------------------
    r_pc,                    \* building the result, or the operation called on it
    linting_result,          \* LintingResult.paths, each with its files
    stats_result,            \* what stats() returned
    records,                 \* what as_records() returned
    persist_buffer,          \* what persist_changes() returned, per file
    written,                 \* the files persist_tree wrote
    fixed_file_suffix        \* the suffix given to persist_changes

loopvars == <<pc, ruleset, fix, loop_limit, working, previous_versions,
              linting_errors, last_fixes, fix_loop_idx, changed, crawler,
              initial_linting_errors, initial_bound, parsed, linted_file,
              first_pass, crawled, versions, every_crawl_committed, round_skipped, exit_kind,
              crawl_memo, run, first_run>>

fsvars == <<fs_pc, templated_file, tree, untouchable_slices, templated_patches,
            patches, patch_idx, slice_buff, source_idx, fix_string_result,
            untouchables_at_call, slot_patch>>

violvars == <<vs_pc, violations, ignore_mask, check_tuples_result,
              get_violations_args, get_violations_result>>

pipevars == <<lex_tokens, parse_vs, ignore_buff, stages, templater_violations>>

\* the variables of the operations on linted files, paths and results
batchvars == <<op, disk, paths, ignore_non_existent_files, b_pc, path_idx,
               fnames, fname_idx, linted_path, result, open_files, exc, yielded>>

resultvars == <<r_pc, linting_result, stats_result, records, persist_buffer,
                written, fixed_file_suffix>>

restvars == <<pipevars, batchvars, resultvars>>

vars == <<loopvars, fsvars, violvars, restvars>>

(***************************************************************************)
(* Values.                                                                 *)
(***************************************************************************)
\* Python's None, where the other values of the variable are records
None == [none |-> TRUE]

\* A tree of the fix loop is known to the loop by its raw text only.
Trees == [raw : 0..MaxRaw]

RawOf(t) == t.raw

\* The tree parse_string returned: raw texts are numbered from it.
ParsedTree == [raw |-> 0]

\* One edit: id is what == on edits compares, result is the tree that applying
\* it to the crawled tree gives.
Edits == [id : 1..MaxFix, result : Trees]

\* A non-empty list of edits, as a rule proposes it.
Fixes == {<<e>> : e \in Edits}

\* fixes = [] (no edit proposed); also stands for last_fixes = None, which the
\* loop only ever tests for truth.
NoFixes == << >>

RuleLists == {<< >>, <<"L001">>, <<"L001", "L002">>}

\* A lint violation as returned by rule `code`.
LintError(code) ==
    [code |-> code, line_no |-> 1, line_pos |-> 1, ignore |-> FALSE,
     fixable |-> TRUE, kind |-> "linting"]

\* A violation left by parse_string before linting starts.
ParseError ==
    [code |-> "PRS", line_no |-> 1, line_pos |-> 1, ignore |-> FALSE,
     fixable |-> FALSE, kind |-> "parsing"]

\* crawler.crawl(working, dialect, fix): (lerrs, _, fixes, _)
CrawlResults(code) ==
    [lerrs : {<< >>, <<LintError(code)>>}, fixes : {NoFixes} \cup Fixes]

\* working.apply_fixes(fixes): the new tree
ApplyFixes(t, fixes) ==
    IF fixes = << >> THEN t ELSE fixes[Len(fixes)].result

\* (variant: no two edit sets compare equal)
FixesEqualNever(f, g) == FALSE

\* fixes == last_fixes
FixesEqual(f, g) ==
    /\ Len(f) = Len(g)
    /\ \A i \in 1..Len(f) : f[i].id = g[i].id

\* violation.ignore_if_in(config.get("ignore"))
IgnoreIfIn(v, ignore_cfg) ==
    IF v.kind \in ignore_cfg THEN [v EXCEPT !.ignore = TRUE] ELSE v

(***************************************************************************)
(* The decisions of the fix loop.                                          *)
(***************************************************************************)
\* (variant: the limit is compared one too late)
LoopLimitOffByOne(idx, limit) == idx > limit + 1

\* if fix_loop_idx > loop_limit: break
LoopLimitReached(idx, limit) == idx > limit

\* (variant: proposed edits are applied whether or not fix is set)
WantFixAlways(fix_flag, fixes) == fixes # NoFixes

\* if fix and fixes:
WantFix(fix_flag, fixes) == fix_flag /\ fixes # NoFixes

\* (variant: an edit set equal to the last one is applied again)
RepeatedFixNever(last, fixes) == FALSE

\* if last_fixes and fixes == last_fixes: (not applied)
RepeatedFix(last, fixes) == last # NoFixes /\ FixesEqual(fixes, last)

\* (variant: the result is committed without looking at previous_versions)
IsNewVersionAlways(new_working, seen) == TRUE

\* (variant: the oscillation guard only looks while it has seen one version)
IsNewVersionWhileFew(new_working, seen) ==
    RawOf(new_working) \notin seen \/ Cardinality(seen) >= 2

\* if new_working.raw not in previous_versions:
IsNewVersion(new_working, seen) == RawOf(new_working) \notin seen

\* (variant: the snapshot is retaken in every round)
SnapshotEveryRound(idx) == TRUE

\* if fix_loop_idx == 1: initial_linting_errors = linting_errors.copy()
SnapshotDue(idx) == idx = 1

\* (variant: the break after round 1 is taken also when fixing)
OnlyRoundOneAlways(fix_flag) == TRUE

\* if not fix: ... break   (we only do round 1)
OnlyRoundOne(fix_flag) == ~fix_flag

\* (variant: the test is inverted)
FixpointInverted(chg) == chg

\* (variant: an iteration without a commit does not end the loop)
FixpointNever(chg) == FALSE

\* if not changed: break
Fixpoint(chg) == ~chg

(***************************************************************************)
(* Linter.lint_string, from `working = parsed` on.                         *)
(***************************************************************************)
StartLoop(t) ==
    /\ pc = "while"
    /\ parsed = t
    /\ working = t
    /\ previous_versions = {RawOf(t)}
    /\ linting_errors = << >>
    /\ last_fixes = NoFixes
    /\ fix_loop_idx = 0
    /\ changed = FALSE
    /\ crawler = 1
    /\ initial_linting_errors = << >>
    /\ initial_bound = FALSE
    /\ linted_file = None
    /\ first_pass = << >>
    /\ crawled = 0
    /\ versions = <<t>>
    /\ every_crawl_committed = TRUE
    /\ round_skipped = FALSE
    /\ exit_kind = "running"

\* lint_string has not been called
LoopIdle ==
    /\ ruleset = << >>
    /\ fix = FALSE
    /\ loop_limit = 0
    /\ pc = "idle"
    /\ parsed = None
    /\ working = None
    /\ previous_versions = {}
    /\ linting_errors = << >>
    /\ last_fixes = NoFixes
    /\ fix_loop_idx = 0
    /\ changed = FALSE
    /\ crawler = 1
    /\ initial_linting_errors = << >>
    /\ initial_bound = FALSE
    /\ linted_file = None
    /\ first_pass = << >>
    /\ crawled = 0
    /\ versions = << >>
    /\ every_crawl_committed = TRUE
    /\ round_skipped = FALSE
    /\ exit_kind = "running"
    /\ crawl_memo = << >>
    /\ run = 1
    /\ first_run = None

\* fix_string has not been called
FixStringIdle ==
    /\ fs_pc = "idle"
    /\ templated_file = None
    /\ tree = None
    /\ untouchable_slices = << >>
    /\ untouchables_at_call = << >>
    /\ templated_patches = << >>
    /\ patches = << >>
    /\ patch_idx = 1
    /\ slice_buff = << >>
    /\ slot_patch = << >>
    /\ source_idx = 0
    /\ fix_string_result = None

ViolIdle ==
    /\ vs_pc = "idle"
    /\ violations = << >>
    /\ ignore_mask = << >>
    /\ check_tuples_result = None
    /\ get_violations_args = None
    /\ get_violations_result = << >>

\* parse_string has not been called
PipeIdle ==
    /\ lex_tokens = None
    /\ parse_vs = << >>
    /\ ignore_buff = << >>
    /\ stages = {}
    /\ templater_violations = << >>

\* no operation on paths has been called
BatchIdle ==
    /\ op = "none"
    /\ disk = << >>
    /\ paths = << >>
    /\ ignore_non_existent_files = FALSE
    /\ b_pc = "idle"
    /\ path_idx = 1
    /\ fnames = << >>
    /\ fname_idx = 1
    /\ linted_path = None
    /\ result = << >>
    /\ open_files = {}
    /\ exc = ""
    /\ yielded = << >>

\* there is no LintingResult
ResultIdle ==
    /\ r_pc = "idle"
    /\ linting_result = << >>
    /\ stats_result = None
    /\ records = << >>
    /\ persist_buffer = {}
    /\ written = {}
    /\ fixed_file_suffix = << >>

RestIdle ==
    /\ PipeIdle
    /\ BatchIdle
    /\ ResultIdle

Init ==
    /\ FixStringIdle
    /\ ViolIdle
    /\ RestIdle
    /\ ruleset \in RuleLists
    /\ fix \in BOOLEAN
    /\ loop_limit \in 0..MaxLimit
    /\ StartLoop(ParsedTree)
    /\ crawl_memo = << >>
    /\ run = 1
    /\ first_run = None

\* while True: fix_loop_idx += 1; limit check; changed = False; enter the for loop
WhileHead ==
    /\ pc = "while"
    /\ fix_loop_idx' = fix_loop_idx + 1
    /\ IF LoopLimitReached(fix_loop_idx + 1, loop_limit)
       THEN /\ pc' = "after_loop"
            /\ exit_kind' = "limit"
            /\ UNCHANGED <<changed, crawler, crawled, round_skipped>>
       ELSE /\ changed' = FALSE
            /\ crawler' = 1
            /\ crawled' = crawled + 1
            /\ round_skipped' = FALSE
            /\ pc' = IF Len(ruleset) = 0 THEN "end_iter" ELSE "crawl"
            /\ UNCHANGED exit_kind
    /\ UNCHANGED <<ruleset, fix, loop_limit, working, previous_versions,
                   linting_errors, last_fixes, initial_linting_errors,
                   initial_bound, parsed, linted_file, first_pass, versions,
                   every_crawl_committed, crawl_memo, run, first_run>>

\* The body of `for crawler in self.get_ruleset(config)` for one rule, given
\* what the rule returned.
CrawlBody(out) ==
    /\ linting_errors' = linting_errors \o out.lerrs
    /\ first_pass' = IF fix_loop_idx = 1 THEN first_pass \o out.lerrs ELSE first_pass
    /\ IF WantFix(fix, out.fixes)
       THEN IF RepeatedFix(last_fixes, out.fixes)
            THEN \* warning: one fix not applied
                 /\ round_skipped' = TRUE
                 /\ every_crawl_committed' = FALSE
                 /\ UNCHANGED <<last_fixes, working, previous_versions,
                                changed, versions>>
            ELSE /\ last_fixes' = out.fixes
                 /\ LET new_working == ApplyFixes(working, out.fixes) IN
                    IF IsNewVersion(new_working, previous_versions)
                    THEN /\ working' = new_working
                         /\ previous_versions' =
                                previous_versions \cup {RawOf(new_working)}
                         /\ changed' = TRUE
                         /\ versions' = Append(versions, new_working)
                         /\ UNCHANGED <<every_crawl_committed, round_skipped>>
                    ELSE \* warning: one fix not applied
                         /\ round_skipped' = TRUE
                         /\ every_crawl_committed' = FALSE
                         /\ UNCHANGED <<working, previous_versions, changed,
                                        versions>>
       ELSE /\ every_crawl_committed' = FALSE
            /\ UNCHANGED <<last_fixes, working, previous_versions, changed,
                           versions, round_skipped>>
    /\ crawler' = crawler + 1
    /\ pc' = IF crawler = Len(ruleset) THEN "end_iter" ELSE "crawl"
    /\ UNCHANGED <<ruleset, fix, loop_limit, fix_loop_idx,
                   initial_linting_errors, initial_bound, parsed, linted_file,
                   crawled, exit_kind, run, first_run>>

\* One rule is crawled; the rule may return anything.
Crawl ==
    /\ pc = "crawl"
    /\ \E out \in CrawlResults(ruleset[crawler]) : CrawlBody(out)
    /\ UNCHANGED crawl_memo

\* One rule is crawled; the rule is deterministic in the edits it proposes: on
\* a tree it has crawled before it proposes what it proposed then.
CrawlDeterministic ==
    /\ pc = "crawl"
    /\ LET key == <<ruleset[crawler], working>> IN
       \E out \in CrawlResults(ruleset[crawler]) :
           /\ key \in DOMAIN crawl_memo => out.fixes = crawl_memo[key]
           /\ CrawlBody(out)
           /\ crawl_memo' = IF key \in DOMAIN crawl_memo THEN crawl_memo
                            ELSE (key :> out.fixes) @@ crawl_memo

\* After the for loop: the round-1 snapshot and the two breaks.
EndIter ==
    /\ pc = "end_iter"
    /\ initial_linting_errors' =
           IF SnapshotDue(fix_loop_idx) THEN linting_errors
           ELSE initial_linting_errors
    /\ initial_bound' = (initial_bound \/ SnapshotDue(fix_loop_idx))
    /\ IF SnapshotDue(fix_loop_idx) /\ OnlyRoundOne(fix)
       THEN /\ parsed' = working
            /\ pc' = "after_loop"
            /\ exit_kind' = "round1"
       ELSE IF Fixpoint(changed)
            THEN /\ pc' = "after_loop"
                 /\ exit_kind' = "unchanged"
                 /\ UNCHANGED parsed
            ELSE /\ parsed' = working
                 /\ pc' = "while"
                 /\ UNCHANGED exit_kind
    /\ UNCHANGED <<ruleset, fix, loop_limit, working, previous_versions,
                   linting_errors, last_fixes, fix_loop_idx, changed, crawler,
                   linted_file, first_pass, crawled, versions,
                   every_crawl_committed, round_skipped, crawl_memo, run,
                   first_run>>

\* vs += initial_linting_errors; ignore_if_in; LintedFile(...)
\* vs holds what parse_string left; reading the unset snapshot raises.
Finish ==
    /\ pc = "after_loop"
    /\ IF ~initial_bound
       THEN /\ pc' = "raised"
            /\ UNCHANGED linted_file
       ELSE \E vs \in {<< >>, <<ParseError>>},
               ignore_cfg \in SUBSET {"parsing", "linting"} :
                /\ pc' = "returned"
                /\ linted_file' =
                       [violations |->
                            [i \in 1..(Len(vs) + Len(initial_linting_errors)) |->
                                IgnoreIfIn((vs \o initial_linting_errors)[i],
                                           ignore_cfg)],
                        tree |-> parsed]
    /\ UNCHANGED <<ruleset, fix, loop_limit, working, previous_versions,
                   linting_errors, last_fixes, fix_loop_idx, changed, crawler,
                   initial_linting_errors, initial_bound, parsed, first_pass,
                   crawled, versions, every_crawl_committed, round_skipped,
                   exit_kind, crawl_memo, run, first_run>>

\* lint_string is called again, with the same rules, on the tree it returned.
Rerun ==
    /\ pc = "returned"
    /\ run = 1
    /\ fix
    /\ run' = 2
    /\ first_run' = [exit_kind |-> exit_kind, skipped |-> round_skipped,
                     tree |-> linted_file.tree]
    /\ pc' = "while"
    /\ parsed' = linted_file.tree
    /\ working' = linted_file.tree
    /\ previous_versions' = {RawOf(linted_file.tree)}
    /\ linting_errors' = << >>
    /\ last_fixes' = NoFixes
    /\ fix_loop_idx' = 0
    /\ changed' = FALSE
    /\ crawler' = 1
    /\ initial_linting_errors' = << >>
    /\ initial_bound' = FALSE
    /\ linted_file' = None
    /\ first_pass' = << >>
    /\ crawled' = 0
    /\ versions' = <<linted_file.tree>>
    /\ every_crawl_committed' = TRUE
    /\ round_skipped' = FALSE
    /\ exit_kind' = "running"
    /\ UNCHANGED <<ruleset, fix, loop_limit, crawl_memo>>

Next ==
    /\ WhileHead \/ Crawl \/ EndIter \/ Finish
    /\ UNCHANGED <<fsvars, violvars, restvars>>

Spec == Init /\ [][Next]_vars

\* the loop, with time passing
LiveSpec == Spec /\ WF_vars(Next)

NextTwice ==
    /\ WhileHead \/ CrawlDeterministic \/ EndIter \/ Finish \/ Rerun
    /\ UNCHANGED <<fsvars, violvars, restvars>>

\* lint_string with deterministic rules, called on a file and then on its result
TwiceSpec == Init /\ [][NextTwice]_vars

(***************************************************************************)
(* LintedFile.fix_string: values.                                          *)
(***************************************************************************)
\* number of fixes applied to a parsed tree before fix_string is called
MaxEdits == 2
\* number of untouchable ranges handed to the sweep (SweepSpec)
MaxUntouchables == 1
\* number of source-space patches handed to the sweep (SweepSpec)
MaxPatches == 2
\* length of the source string (SweepSpec)
SrcLen == 2

\* slice(a, b)
Sl(a, b) == [start |-> a, stop |-> b]

\* str[sl], for 0 <= sl.start and sl.stop <= len(str)
Cut(str, sl) == SubSeq(str, sl.start + 1, sl.stop)

Min(S) == CHOOSE x \in S : \A y \in S : x <= y

Max(S) == CHOOSE x \in S : \A y \in S : y <= x

RECURSIVE Flatten(_)
\* "".join(strs)
Flatten(strs) == IF strs = << >> THEN << >> ELSE Head(strs) \o Flatten(Tail(strs))

SELECT == <<"S", "E", "L", "E", "C", "T">>

FROM == <<"F", "R", "O", "M">>

SP == <<" ">>

NL == <<"\n">>

ONE == <<"1">>

TBL == <<"t">>

ID == <<"i", "d">>

USER == <<"u", "s", "e", "r", "_">>

COLTAG == <<"{", "{", "c", "o", "l", "}", "}">>

IFTAG == <<"{", "%", "i", "f", " ", "a", "%", "}">>

ENDTAG == <<"{", "%", "e", "n", "d", "i", "f", "%", "}">>

FORTAG == <<"{", "%", "f", "o", "r", "%", "}">>

ENDFOR == <<"{", "%", "e", "n", "d", "f", "o", "r", "%", "}">>

\* One file slice of TemplatedFile.sliced_file.
FileSlice(kind, src, tpl) == [kind |-> kind, src |-> src, tpl |-> tpl]

\* `SELECT 1 FROM t`, no templating: one literal slice.
PlainTokens == <<SELECT, SP, ONE, SP, FROM, SP, TBL>>

PlainFile ==
    LET str == Flatten(PlainTokens) IN
    [source_str |-> str, templated_str |-> str,
     sliced_file |-> <<FileSlice("literal", Sl(0, Len(str)), Sl(0, Len(str)))>>]

\* `SELECT {{col}} FROM t`, templated to `SELECT id FROM t`.
JinjaTokens == <<SELECT, SP, ID, SP, FROM, SP, TBL>>

JinjaFile ==
    LET pre  == SELECT \o SP
        post == SP \o FROM \o SP \o TBL
        a == Len(pre)
    IN  [source_str |-> pre \o COLTAG \o post,
         templated_str |-> pre \o ID \o post,
         sliced_file |->
            <<FileSlice("literal", Sl(0, a), Sl(0, a)),
              FileSlice("templated", Sl(a, a + Len(COLTAG)), Sl(a, a + Len(ID))),
              FileSlice("literal",
                        Sl(a + Len(COLTAG), a + Len(COLTAG) + Len(post)),
                        Sl(a + Len(ID), a + Len(ID) + Len(post)))>>]

\* `{%if a%}1{%endif%}`, templated to `1`: two block slices around a literal.
BlockTokens == <<ONE>>

BlockFile ==
    LET a == Len(IFTAG)
        b == a + Len(ONE)
    IN  [source_str |-> IFTAG \o ONE \o ENDTAG,
         templated_str |-> ONE,
         sliced_file |->
            <<FileSlice("block", Sl(0, a), Sl(0, 0)),
              FileSlice("literal", Sl(a, b), Sl(0, Len(ONE))),
              FileSlice("block", Sl(b, b + Len(ENDTAG)), Sl(Len(ONE), Len(ONE)))>>]

\* A for loop over two items around `1 `, templated to `1 1 `: the literal
\* of the loop body is in the sliced file once per round, both times with the
\* same source range (the sliced file has repeats in the source space).
LoopTokens == <<ONE, SP, ONE, SP>>

LoopFile ==
    LET body == ONE \o SP
        a == Len(FORTAG)
        b == a + Len(body)
        c == b + Len(ENDFOR)
        n == Len(body)
    IN  [source_str |-> FORTAG \o body \o ENDFOR,
         templated_str |-> body \o body,
         sliced_file |->
            <<FileSlice("block", Sl(0, a), Sl(0, 0)),
              FileSlice("literal", Sl(a, b), Sl(0, n)),
              FileSlice("block", Sl(b, c), Sl(n, n)),
              FileSlice("literal", Sl(a, b), Sl(n, 2 * n)),
              FileSlice("block", Sl(b, c), Sl(2 * n, 2 * n))>>]

\* The files fix_string is run on, with the tokens the lexer cuts them into.
ParsedFiles ==
    {[file |-> PlainFile, tokens |-> PlainTokens],
     [file |-> JinjaFile, tokens |-> JinjaTokens],
     [file |-> BlockFile, tokens |-> BlockTokens],
     [file |-> LoopFile, tokens |-> LoopTokens]}

\* The file slices a templated range touches.
Touching(tf, ts) ==
    {i \in 1..Len(tf.sliced_file) :
        LET f == tf.sliced_file[i] IN
        IF ts.start = ts.stop
        THEN f.tpl.start <= ts.start /\ ts.start <= f.tpl.stop
        ELSE f.tpl.start < ts.stop /\ ts.start < f.tpl.stop}

\* EnrichedFilePositionMarker.is_literal: the range is a verbatim copy of source
IsLiteral(tf, ts) ==
    \A i \in Touching(tf, ts) : tf.sliced_file[i].kind = "literal"

\* A segment with an EnrichedFilePositionMarker.
Enriched(raw, ts, lit, segs) ==
    [raw |-> raw, enriched |-> TRUE, is_literal |-> lit, templated_slice |-> ts,
     segments |-> segs, placeholder |-> FALSE]

\* A segment a fix created: its position marker is not enriched.
Bare(raw) ==
    [raw |-> raw, enriched |-> FALSE, is_literal |-> FALSE,
     templated_slice |-> Sl(0, 0), segments |-> << >>, placeholder |-> FALSE]

RECURSIVE LeavesFrom(_, _, _)
\* The leaf segments of the parsed tree, one per token, from templated offset `at`.
LeavesFrom(tf, tokens, at) ==
    IF tokens = << >> THEN << >>
    ELSE LET ts == Sl(at, at + Len(Head(tokens))) IN
         <<Enriched(Head(tokens), ts, IsLiteral(tf, ts), << >>)>>
             \o LeavesFrom(tf, Tail(tokens), at + Len(Head(tokens)))

\* segment.raw of a parent: its children's raw texts joined
RawOfSegments(segs) == Flatten([i \in 1..Len(segs) |-> segs[i].raw])

\* The file segment over one statement segment over the leaves.
FileSegment(tf, leaves) ==
    LET whole == Sl(0, Len(tf.templated_str))
        lit == IsLiteral(tf, whole)
        statement == Enriched(RawOfSegments(leaves), whole, lit, leaves)
    IN  Enriched(statement.raw, whole, lit, <<statement>>)

\* The three kinds of fix, on the k-th leaf: edit (the leaf keeps its marker),
\* create before, delete.
EditLeaf(leaves, k) == [leaves EXCEPT ![k].raw = USER \o @]

CreateBefore(leaves, k) ==
    SubSeq(leaves, 1, k - 1) \o <<Bare(NL)>> \o SubSeq(leaves, k, Len(leaves))

DeleteLeaf(leaves, k) ==
    SubSeq(leaves, 1, k - 1) \o SubSeq(leaves, k + 1, Len(leaves))

FixedOnce(leaves) ==
    UNION {{EditLeaf(leaves, k), CreateBefore(leaves, k), DeleteLeaf(leaves, k)} :
              k \in 1..Len(leaves)}

RECURSIVE FixedLeaves(_, _)
\* What at most n fixes make of the leaves.
FixedLeaves(leaves, n) ==
    IF n = 0 THEN {leaves}
    ELSE LET before == FixedLeaves(leaves, n - 1) IN
         before \cup UNION {FixedOnce(l) : l \in before}

(***************************************************************************)
(* LintedFile.fix_string: the patch deriver.                               *)
(***************************************************************************)
\* a patch in templated space
TPatch(ts, text, hint) == [slice |-> ts, text |-> text, hint |-> hint]

\* (variant: a segment never counts as unchanged)
MatchesNever(seg, templated_str) == FALSE

\* seg.raw == templated_str[seg.pos_marker.templated_slice]
Matches(seg, templated_str) == seg.raw = Cut(templated_str, seg.templated_slice)

RECURSIVE IterPatches(_, _), IterChildren(_, _, _, _, _, _)
\* (variant: a literal segment is descended into like any other)
IterPatchesAlwaysDeeper(seg, templated_str) ==
    IF Matches(seg, templated_str) THEN << >>
    ELSE IterChildren(seg, templated_str, 1, seg.templated_slice.start, << >>, 0)

\* (variant: a changed segment without children yields its raw text, literal
\* or not)
IterPatchesLeafAsEdit(seg, templated_str) ==
    IF Matches(seg, templated_str) THEN << >>
    ELSE IF seg.is_literal \/ seg.segments = << >>
         THEN <<TPatch(seg.templated_slice, seg.raw, 0)>>
         ELSE IterChildren(seg, templated_str, 1, seg.templated_slice.start,
                           << >>, 0)

\* iter_patches(seg)
IterPatches(seg, templated_str) ==
    IF Matches(seg, templated_str) THEN << >>
    ELSE IF seg.is_literal
         THEN <<TPatch(seg.templated_slice, seg.raw, 0)>>
         ELSE IterChildren(seg, templated_str, 1, seg.templated_slice.start,
                           << >>, 0)

\* The loop over seg.segments from the i-th child on, and the trailing patch.
IterChildren(seg, templated_str, i, templated_idx, insert_buff, post_placeholder) ==
    IF i > Len(seg.segments)
    THEN LET stop == seg.templated_slice.stop
             end_diff == stop - templated_idx
         IN  IF end_diff # 0 \/ insert_buff # << >>
             THEN <<TPatch(Sl(stop - end_diff, stop), insert_buff, 0)>>
             ELSE << >>
    ELSE LET segment == seg.segments[i]
             pp == IF segment.placeholder THEN post_placeholder + 1
                   ELSE post_placeholder
         IN  IF ~segment.enriched
             THEN IterChildren(seg, templated_str, i + 1, templated_idx,
                               insert_buff \o segment.raw, pp)
             ELSE LET start == segment.templated_slice.start
                      start_diff == start - templated_idx
                      gap == start_diff > 0 \/ insert_buff # << >>
                  IN  (IF gap
                       THEN <<TPatch(Sl(start - start_diff, start), insert_buff, pp)>>
                       ELSE << >>)
                      \o IterPatches(segment, templated_str)
                      \o IterChildren(seg, templated_str, i + 1,
                                      segment.templated_slice.stop,
                                      IF gap THEN << >> ELSE insert_buff,
                                      IF gap THEN 0 ELSE pp)

RECURSIVE SortedByStart(_)
\* sorted(ps, key=lambda x: x[0].start): stable
SortedByStart(ps) ==
    IF ps = << >> THEN << >>
    ELSE LET last == ps[Len(ps)]
             front == SortedByStart(SubSeq(ps, 1, Len(ps) - 1))
         IN  SelectSeq(front, LAMBDA q : q.slice.start <= last.slice.start)
                 \o <<last>>
                 \o SelectSeq(front, LAMBDA q : q.slice.start > last.slice.start)

RECURSIVE MergedRanges(_)
\* Ranges sorted by start, merged on overlap.
MergedRanges(rs) ==
    IF Len(rs) < 2 THEN rs
    ELSE IF rs[2].start < rs[1].stop
         THEN MergedRanges(<<Sl(rs[1].start, Max({rs[1].stop, rs[2].stop}))>>
                               \o SubSeq(rs, 3, Len(rs)))
         ELSE <<rs[1]>> \o MergedRanges(Tail(rs))

\* templated_file.untouchable_slices(): the source ranges of the block slices
\* and of the templated slices of zero templated length
UntouchableSlices(tf) ==
    LET picked == SelectSeq(tf.sliced_file,
                            LAMBDA f : \/ f.kind = "block"
                                       \/ /\ f.kind = "templated"
                                          /\ f.tpl.start = f.tpl.stop)
        sorted == SortedByStart([i \in 1..Len(picked) |-> [slice |-> picked[i].src]])
    IN  MergedRanges([i \in 1..Len(sorted) |-> sorted[i].slice])

\* templated_file.templated_slice_to_source_slice(ts)
TemplatedSliceToSourceSlice(tf, ts) ==
    LET touched == {tf.sliced_file[i] : i \in Touching(tf, ts)}
        joins == {f.src.start : f \in {g \in touched : g.tpl.start = ts.start}}
                 \cup {f.src.stop : f \in {g \in touched : g.tpl.stop = ts.start}}
        starts == {IF f.kind = "literal"
                   THEN f.src.start + (Max({ts.start, f.tpl.start}) - f.tpl.start)
                   ELSE f.src.start : f \in touched}
        stops == {IF f.kind = "literal"
                  THEN f.src.start + (Min({ts.stop, f.tpl.stop}) - f.tpl.start)
                  ELSE f.src.stop : f \in touched}
    IN  IF ts.start = ts.stop /\ joins # {}
        THEN Sl(Min(joins), Min(joins))
        ELSE Sl(Min(starts), Max(stops))

\* a patch in source space
SPatch(sl, text) == [slice |-> sl, text |-> text]

\* patches = [(templated_slice_to_source_slice(patch[0]), patch[1]) ...]
Lifted(tf, tps) ==
    [i \in 1..Len(tps) |->
        SPatch(TemplatedSliceToSourceSlice(tf, tps[i].slice), tps[i].text)]

(***************************************************************************)
(* LintedFile.fix_string: the source reconstruction.                       *)
(***************************************************************************)
\* patch not in patches[:idx]
FirstOccurrence(ps, idx) == \A j \in 1..(idx - 1) : ps[j] # ps[idx]

\* [patch for idx, patch in enumerate(patches) if patch not in patches[:idx]]
Deduped(ps) ==
    LET numbered == [i \in 1..Len(ps) |-> [at |-> i, patch |-> ps[i]]]
        kept == SelectSeq(numbered, LAMBDA e : FirstOccurrence(ps, e.at))
    IN  [i \in 1..Len(kept) |-> kept[i].patch]

\* untouchable_slices and untouchable_slices[0][0].start < patch[0].start
UntouchableDue(unt, patch) ==
    unt # << >> /\ Head(unt).start < patch.slice.start

RECURSIVE PopUntouchables(_, _, _, _)
\* The while loop of the sweep: what it leaves of the untouchables, the slice
\* buffer and source_idx.
PopUntouchables(unt, buff, idx, patch) ==
    IF UntouchableDue(unt, patch)
    THEN LET next_untouchable_slice == Head(unt)
             pre == IF next_untouchable_slice.start > idx
                    THEN <<Sl(idx, next_untouchable_slice.start)>>
                    ELSE << >>
         IN  PopUntouchables(Tail(unt),
                             buff \o pre \o <<next_untouchable_slice>>,
                             next_untouchable_slice.stop, patch)
    ELSE [unt |-> unt, buff |-> buff, idx |-> idx]

\* if patch[0].start < source_idx: ... continue
Overlapping(patch, idx) == patch.slice.start < idx

\* history: the slots a buffer has beyond those of origins were not appended
\* for a patch
NoPatch(origins, buff) ==
    [i \in 1..Len(buff) |-> IF i <= Len(origins) THEN origins[i] ELSE 0]

\* (variant: a slice of the buffer renders as nothing)
RenderedNothing(source_slice, ps, source_str) == << >>

\* (variant: the render loop finds no patch for any slot)
PatchForNone(source_slice, ps) == 0

\* for patch in patches: if patch[0] == source_slice: ... break
\* The index of the patch the render loop stops at, 0 when it runs through.
PatchFor(source_slice, ps) ==
    LET hits == {i \in 1..Len(ps) : ps[i].slice = source_slice} IN
    IF hits # {} THEN Min(hits) ELSE 0

\* The render loop: the text for one slice of the buffer.
Rendered(source_slice, ps, source_str) ==
    LET k == PatchFor(source_slice, ps) IN
    IF k # 0 THEN ps[k].text ELSE Cut(source_str, source_slice)

\* str_buff after the render loop
StrBuff(buff, ps, source_str) ==
    Flatten([i \in 1..Len(buff) |-> Rendered(buff[i], ps, source_str)])

(***************************************************************************)
(* LintedFile.fix_string: the steps.                                       *)
(***************************************************************************)
\* patches = sorted(list(iter_patches(self.tree)), key=lambda x: x[0].start)
DerivePatches ==
    /\ fs_pc = "iter_patches"
    /\ templated_patches' =
           SortedByStart(IterPatches(tree, templated_file.templated_str))
    /\ fs_pc' = "lift"
    /\ UNCHANGED <<templated_file, tree, untouchable_slices, patches, patch_idx,
                   slice_buff, slot_patch, source_idx, fix_string_result>>

\* the patches are converted into source space
LiftPatches ==
    /\ fs_pc = "lift"
    /\ patches' = Lifted(templated_file, templated_patches)
    /\ fs_pc' = "dedupe"
    /\ UNCHANGED <<templated_file, tree, untouchable_slices, templated_patches,
                   patch_idx, slice_buff, slot_patch, source_idx,
                   fix_string_result>>

\* dedupe on source space; slice_buff = []; source_idx = 0
DedupePatches ==
    /\ fs_pc = "dedupe"
    /\ patches' = Deduped(patches)
    /\ slice_buff' = << >>
    /\ slot_patch' = << >>
    /\ source_idx' = 0
    /\ patch_idx' = 1
    /\ fs_pc' = "sweep"
    /\ UNCHANGED <<templated_file, tree, untouchable_slices, templated_patches,
                   fix_string_result>>

\* one pass of `for patch in patches`
SweepPatch ==
    /\ fs_pc = "sweep"
    /\ patch_idx <= Len(patches)
    /\ LET patch == patches[patch_idx]
           popped == PopUntouchables(untouchable_slices, slice_buff, source_idx,
                                     patch)
           gap == IF patch.slice.start > popped.idx
                  THEN <<Sl(popped.idx, patch.slice.start)>>
                  ELSE << >>
       IN  /\ untouchable_slices' = popped.unt
           /\ IF Overlapping(patch, popped.idx)
              THEN /\ slice_buff' = popped.buff \o gap
                   /\ slot_patch' = NoPatch(slot_patch, popped.buff \o gap)
                   /\ source_idx' = popped.idx
              ELSE /\ slice_buff' = popped.buff \o gap \o <<patch.slice>>
                   /\ slot_patch' =
                          Append(NoPatch(slot_patch, popped.buff \o gap), patch_idx)
                   /\ source_idx' = patch.slice.stop
    /\ patch_idx' = patch_idx + 1
    /\ UNCHANGED <<fs_pc, templated_file, tree, templated_patches, patches,
                   fix_string_result>>

\* after the for loop: the tail slice
SweepTail ==
    /\ fs_pc = "sweep"
    /\ patch_idx > Len(patches)
    /\ slice_buff' =
           IF source_idx < Len(templated_file.source_str)
           THEN Append(slice_buff, Sl(source_idx, Len(templated_file.source_str)))
           ELSE slice_buff
    /\ slot_patch' = NoPatch(slot_patch, slice_buff')
    /\ fs_pc' = "render"
    /\ UNCHANGED <<templated_file, tree, untouchable_slices, templated_patches,
                   patches, patch_idx, source_idx, fix_string_result>>

\* the render loop and `return str_buff, str_buff != original_source`
Render ==
    /\ fs_pc = "render"
    /\ LET str_buff == StrBuff(slice_buff, patches, templated_file.source_str) IN
       fix_string_result' =
           [str |-> str_buff, changed |-> str_buff # templated_file.source_str]
    /\ fs_pc' = "returned"
    /\ UNCHANGED <<templated_file, tree, untouchable_slices, templated_patches,
                   patches, patch_idx, slice_buff, slot_patch, source_idx>>

\* fix_string is called on a LintedFile whose tree took at most MaxEdits fixes.
PatchInit ==
    /\ LoopIdle
    /\ ViolIdle
    /\ RestIdle
    /\ \E pf \in ParsedFiles :
          /\ templated_file = pf.file
          /\ \E leaves \in FixedLeaves(LeavesFrom(pf.file, pf.tokens, 0), MaxEdits) :
                 tree = FileSegment(pf.file, leaves)
          /\ untouchable_slices = UntouchableSlices(pf.file)
    /\ untouchables_at_call = untouchable_slices
    /\ fs_pc = "iter_patches"
    /\ templated_patches = << >>
    /\ patches = << >>
    /\ patch_idx = 1
    /\ slice_buff = << >>
    /\ slot_patch = << >>
    /\ source_idx = 0
    /\ fix_string_result = None

PatchNext ==
    /\ DerivePatches \/ LiftPatches \/ DedupePatches \/ SweepPatch \/ SweepTail
          \/ Render
    /\ UNCHANGED <<loopvars, violvars, restvars, untouchables_at_call>>

\* fix_string on a fixed tree
PatchSpec == PatchInit /\ [][PatchNext]_vars

\* the characters of the source strings of SweepSpec
Alphabet == <<"a", "b", "c", "d", "e", "f">>

\* what a patch may put in place of its range
Replacements == {<< >>, <<"x">>}

\* source ranges of a string of length n
Ranges(n) == {Sl(a, b) : a \in 0..n, b \in 0..n}

\* lists of at most n values of S
ListsOf(S, n) == UNION {[1..k -> S] : k \in 0..n}

\* The sweep is handed any source-space patches (as the slice map lifted them)
\* and any sorted, non-overlapping untouchable ranges.
SweepInit ==
    /\ LoopIdle
    /\ ViolIdle
    /\ RestIdle
    /\ templated_file =
           [source_str |-> SubSeq(Alphabet, 1, SrcLen), templated_str |-> << >>,
            sliced_file |-> << >>]
    /\ tree = None
    /\ templated_patches = << >>
    /\ patches \in ListsOf({SPatch(sl, text) :
                               sl \in {r \in Ranges(SrcLen) : r.start <= r.stop},
                               text \in Replacements},
                           MaxPatches)
    /\ untouchable_slices \in
           {u \in ListsOf({r \in Ranges(SrcLen) : r.start < r.stop},
                          MaxUntouchables) :
               \A i \in 1..(Len(u) - 1) : u[i].stop <= u[i + 1].start}
    /\ untouchables_at_call = untouchable_slices
    /\ fs_pc = "dedupe"
    /\ patch_idx = 1
    /\ slice_buff = << >>
    /\ slot_patch = << >>
    /\ source_idx = 0
    /\ fix_string_result = None

SweepNext ==
    /\ DedupePatches \/ SweepPatch \/ SweepTail \/ Render
    /\ UNCHANGED <<loopvars, violvars, restvars, untouchables_at_call>>

\* the source reconstruction on any patches
SweepSpec == SweepInit /\ [][SweepNext]_vars

(***************************************************************************)
(* LintedFile.get_violations and LintedFile.check_tuples.                  *)
(***************************************************************************)
\* number of violations of a file
MaxViolations == 2
\* line numbers of a file
MaxLine == 2
\* line positions of a file
MaxPos == 2

\* the rule codes, in ascending order
Codes == <<"L001", "L002">>

\* what a SQLLintError can be; the first rule is the one that proposes fixes
LintErrors ==
    {[code |-> Codes[i], line_no |-> l, line_pos |-> p, ignore |-> ig,
      fixable |-> (i = 1), kind |-> "linting"] :
        i \in 1..Len(Codes), l \in 1..MaxLine, p \in 1..MaxPos, ig \in BOOLEAN}

\* what a SQLParseError can be (at the start of any line)
ParseErrors ==
    [code : {"PRS"}, line_no : 1..MaxLine, line_pos : {1},
     ignore : BOOLEAN, fixable : {FALSE}, kind : {"parsing"}]

\* an entry (line_no, rules) of the ignore mask; rules is None (all) or a
\* tuple of codes
MaskEntries ==
    [line_no : 1..MaxLine,
     rules : {[all |-> TRUE, codes |-> {}], [all |-> FALSE, codes |-> {Codes[1]}]}]

\* the ignore mask of a file without a noqa comment, or with one
IgnoreMasks == {<< >>} \cup {<<e>> : e \in MaskEntries}

\* (variant: an entry hides its rules on every line)
MaskedOnAnyLine(v, entry) == entry.rules.all \/ v.code \in entry.rules.codes

\* (line_no, rules) of the mask hides v
Masked(v, entry) ==
    v.line_no = entry.line_no /\ (entry.rules.all \/ v.code \in entry.rules.codes)

\* get_violations(rules, types, filter_ignore, fixable); an empty sequence
\* stands for an argument that is None
GetViolations(vs, mask, rules, types, filter_ignore, fixable_arg) ==
    LET typed == IF types # << >>
                 THEN SelectSeq(vs, LAMBDA v :
                          \E i \in 1..Len(types) : v.kind = types[i])
                 ELSE vs
        ruled == IF rules # << >>
                 THEN SelectSeq(typed, LAMBDA v :
                          \E i \in 1..Len(rules) : v.code = rules[i])
                 ELSE typed
        fixed == IF fixable_arg # << >>
                 THEN SelectSeq(ruled, LAMBDA v : v.fixable = fixable_arg[1])
                 ELSE ruled
    IN  IF filter_ignore
        THEN SelectSeq(fixed, LAMBDA v :
                 /\ ~v.ignore
                 /\ \A i \in 1..Len(mask) : ~Masked(v, mask[i]))
        ELSE fixed

\* hasattr(v, "check_tuple")
HasCheckTuple(v) == v.kind = "linting"

\* v.check_tuple()
CheckTuple(v) == <<v.code, v.line_no, v.line_pos>>

\* the place of a code among the codes
CodeRank(code) == CHOOSE i \in 1..Len(Codes) : Codes[i] = code

\* check tuple s is not after check tuple t in (line_no, line_pos, code) order
TupleLeq(s, t) ==
    \/ s[2] < t[2]
    \/ s[2] = t[2] /\ s[3] < t[3]
    \/ s[2] = t[2] /\ s[3] = t[3] /\ CodeRank(s[1]) <= CodeRank(t[1])

RECURSIVE SortedTuples(_)
\* (variant: the check tuples sorted by (line_no, line_pos, code))
SortedTuples(vs) ==
    IF vs = << >> THEN << >>
    ELSE LET last == CheckTuple(vs[Len(vs)])
             front == SortedTuples(SubSeq(vs, 1, Len(vs) - 1))
         IN  SelectSeq(front, LAMBDA t : TupleLeq(t, last)) \o <<last>>
                 \o SelectSeq(front, LAMBDA t : ~TupleLeq(t, last))

\* the list check_tuples builds: one tuple per violation, in the order of vs
TuplesOf(vs) == [i \in 1..Len(vs) |-> CheckTuple(vs[i])]

\* check_tuples()
CheckTuples ==
    /\ vs_pc = "ready"
    /\ LET vs == GetViolations(violations, ignore_mask, << >>, << >>, TRUE, << >>)
           bad == {i \in 1..Len(vs) : ~HasCheckTuple(vs[i])}
       IN  IF bad = {}
           THEN /\ check_tuples_result' = [raised |-> << >>, tuples |-> TuplesOf(vs)]
                /\ vs_pc' = "returned"
           ELSE /\ check_tuples_result' =
                       [raised |-> <<vs[Min(bad)]>>, tuples |-> << >>]
                /\ vs_pc' = "raised"
    /\ UNCHANGED <<violations, ignore_mask, get_violations_args,
                   get_violations_result>>

\* the calls of get_violations: an empty sequence stands for an argument left
\* at None
GetViolationsCalls ==
    {[rules |-> << >>, types |-> << >>, filter_ignore |-> TRUE, fixable |-> << >>],
     [rules |-> << >>, types |-> << >>, filter_ignore |-> FALSE, fixable |-> << >>],
     [rules |-> <<Codes[1]>>, types |-> << >>, filter_ignore |-> TRUE,
      fixable |-> << >>],
     [rules |-> << >>, types |-> <<"linting">>, filter_ignore |-> TRUE,
      fixable |-> <<TRUE>>]}

\* get_violations(rules, types, filter_ignore, fixable)
GetViolationsCall ==
    /\ vs_pc = "ready"
    /\ \E args \in GetViolationsCalls :
          /\ get_violations_args' = args
          /\ get_violations_result' =
                 GetViolations(violations, ignore_mask, args.rules, args.types,
                               args.filter_ignore, args.fixable)
    /\ vs_pc' = "got_violations"
    /\ UNCHANGED <<violations, ignore_mask, check_tuples_result>>

\* A LintedFile holds any violations, in any order, and any ignore mask.
ViolInit ==
    /\ LoopIdle
    /\ FixStringIdle
    /\ RestIdle
    /\ vs_pc = "ready"
    /\ violations \in ListsOf(LintErrors \cup ParseErrors, MaxViolations)
    /\ ignore_mask \in IgnoreMasks
    /\ check_tuples_result = None
    /\ get_violations_args = None
    /\ get_violations_result = << >>

ViolNext ==
    /\ CheckTuples \/ GetViolationsCall
    /\ UNCHANGED <<loopvars, fsvars, restvars>>

\* check_tuples on any LintedFile
ViolSpec == ViolInit /\ [][ViolNext]_vars

(***************************************************************************)
(* Linter.parse_string and Linter.lint_string around the fix loop.         *)
(***************************************************************************)
\* a violation the templater returned
TemplateError ==
    [code |-> "TMP", line_no |-> 1, line_pos |-> 1, ignore |-> FALSE,
     fixable |-> FALSE, kind |-> "templating"]

\* a violation of the lexer: returned in lex_vs, or raised
LexError(raised) ==
    [code |-> "LXR", line_no |-> 1, line_pos |-> IF raised THEN 2 ELSE 1,
     ignore |-> FALSE, fixable |-> FALSE, kind |-> "lexing"]

\* SQLParseError("Found unparsable section: ...")
UnparsableError == [ParseError EXCEPT !.line_pos = 2]

\* SQLParseError("Malformed 'noqa' section. ...")
MalformedNoqa == [ParseError EXCEPT !.line_no = 2]

\* the token tuple the lexer returns
Tokens(segs) == [segments |-> segs]

\* self.templater.process(...): (templated_file, templater_violations)
TemplaterOutcomes ==
    [file : {None, PlainFile}, violations : {<< >>, <<TemplateError>>}]

\* lexer.lex(templated_file): (tokens, lex_vs), or SQLLexError raised
LexOutcomes ==
    [raised : {FALSE}, tokens : {Tokens(<< >>), Tokens(PlainTokens)},
     lex_vs : {<< >>, <<LexError(FALSE)>>}]
    \cup {[raised |-> TRUE, tokens |-> None, lex_vs |-> << >>]}

\* parser.parse(tokens): a tree with or without an unparsable section, or
\* SQLParseError raised
ParseOutcomes ==
    [raised : {FALSE}, unparsables : {<< >>, <<UnparsableError>>}]
    \cup {[raised |-> TRUE, unparsables |-> << >>]}

\* extract_ignore_from_comment on the inline comments of the tree: no noqa
\* comment, a malformed one, or an entry (line_no, rules)
NoqaOutcomes ==
    {[err |-> << >>, entry |-> << >>],
     [err |-> <<MalformedNoqa>>, entry |-> << >>],
     [err |-> << >>, entry |-> <<[line_no |-> 1, rules |-> None]>>]}

\* (variant: the parser is run whatever the lexer left)
HasTokensAlways(toks) == TRUE

\* if tokens:
HasTokens(toks) == toks # None /\ toks.segments # << >>

\* the loop variables from `working = parsed` on
loopstate == <<working, previous_versions, linting_errors, last_fixes,
               fix_loop_idx, changed, crawler, initial_linting_errors,
               initial_bound, first_pass, crawled, versions,
               every_crawl_committed, round_skipped, exit_kind>>

\* what a lint_string call is given
callargs == <<ruleset, fix, loop_limit, crawl_memo, run, first_run>>

\* the fix_string variables but the templated file
fsrest == <<fs_pc, tree, untouchable_slices, templated_patches, patches,
            patch_idx, slice_buff, source_idx, fix_string_result,
            untouchables_at_call, slot_patch>>

\* templated_file, templater_violations = self.templater.process(...)
\* violations += templater_violations; if not templated_file: tokens = None
TemplaterProcess ==
    /\ pc = "template"
    /\ \E out \in TemplaterOutcomes :
          /\ templated_file' = out.file
          /\ templater_violations' = out.violations
          /\ parse_vs' = parse_vs \o out.violations
    /\ lex_tokens' = None
    /\ stages' = stages \cup {"templater"}
    /\ pc' = "lex"
    /\ UNCHANGED <<parsed, linted_file, ignore_buff, loopstate, callargs>>

\* if templated_file: try: tokens, lex_vs = lexer.lex(...) except SQLLexError
\* else: tokens = None
Lex ==
    /\ pc = "lex"
    /\ IF templated_file # None
       THEN \E out \in LexOutcomes :
               /\ lex_tokens' = out.tokens
               /\ parse_vs' = IF out.raised THEN Append(parse_vs, LexError(TRUE))
                              ELSE parse_vs \o out.lex_vs
               /\ stages' = stages \cup
                      (IF out.raised THEN {"lexer", "lexer raised"} ELSE {"lexer"})
       ELSE /\ lex_tokens' = None
            /\ UNCHANGED <<parse_vs, stages>>
    /\ pc' = "parse"
    /\ UNCHANGED <<parsed, linted_file, ignore_buff, loopstate, callargs,
                   templated_file, templater_violations>>

\* if tokens: try: parsed = parser.parse(tokens) except SQLParseError;
\* the unparsable sections; else: parsed = None; return to lint_string
Parse ==
    /\ pc = "parse"
    /\ IF HasTokens(lex_tokens)
       THEN \E out \in ParseOutcomes :
               /\ parsed' = IF out.raised THEN None ELSE ParsedTree
               /\ parse_vs' = IF out.raised THEN Append(parse_vs, ParseError)
                              ELSE parse_vs \o out.unparsables
               /\ stages' = stages \cup
                      (IF out.raised THEN {"parser", "parser raised"} ELSE {"parser"})
       ELSE /\ parsed' = None
            /\ UNCHANGED <<parse_vs, stages>>
    /\ pc' = "lint_string"
    /\ UNCHANGED <<lex_tokens, linted_file, ignore_buff, loopstate, callargs,
                   templated_file, templater_violations>>

\* lint_string after parse_string returned: the noqa comments of the tree and
\* the set-up of the fix loop, both under `if parsed:`
LintStringHead ==
    /\ pc = "lint_string"
    /\ IF parsed # None
       THEN /\ \E out \in NoqaOutcomes :
                 /\ parse_vs' = parse_vs \o out.err
                 /\ ignore_buff' = out.entry
            /\ pc' = "while"
            /\ working' = parsed
            /\ previous_versions' = {RawOf(parsed)}
            /\ linting_errors' = << >>
            /\ last_fixes' = NoFixes
            /\ fix_loop_idx' = 0
            /\ versions' = <<parsed>>
            /\ stages' = stages \cup {"linting"}
       ELSE /\ ignore_buff' = << >>
            /\ pc' = "build"
            /\ UNCHANGED <<parse_vs, working, previous_versions, linting_errors,
                           last_fixes, fix_loop_idx, versions, stages>>
    /\ UNCHANGED <<parsed, linted_file, lex_tokens, callargs, templated_file,
                   templater_violations, changed, crawler,
                   initial_linting_errors, initial_bound, first_pass, crawled,
                   every_crawl_committed, round_skipped, exit_kind>>

\* vs += initial_linting_errors (under `if parsed:`); ignore_if_in;
\* LintedFile(fname, vs, time_dict, parsed, ignore_mask, templated_file)
BuildLintedFile ==
    /\ pc \in {"after_loop", "build"}
    /\ IF pc = "after_loop" /\ ~initial_bound
       THEN /\ pc' = "raised"
            /\ UNCHANGED <<linted_file, parse_vs>>
       ELSE \E ignore_cfg \in SUBSET {"templating", "parsing"} :
               LET all == IF pc = "after_loop"
                          THEN parse_vs \o initial_linting_errors
                          ELSE parse_vs
                   flagged == [i \in 1..Len(all) |-> IgnoreIfIn(all[i], ignore_cfg)]
               IN  /\ parse_vs' = flagged
                   /\ linted_file' =
                          [violations |-> flagged, tree |-> parsed,
                           ignore_mask |-> ignore_buff,
                           templated_file |-> templated_file]
                   /\ pc' = "returned"
    /\ UNCHANGED <<parsed, lex_tokens, ignore_buff, stages, loopstate, callargs,
                   templated_file, templater_violations>>

\* lint_string is called on a string, with a runaway limit of 0 or 1
PipeInit ==
    /\ FixStringIdle
    /\ ViolIdle
    /\ RestIdle
    /\ ruleset \in RuleLists
    /\ fix \in BOOLEAN
    /\ loop_limit \in 0..1
    /\ pc = "template"
    /\ parsed = None
    /\ working = None
    /\ previous_versions = {}
    /\ linting_errors = << >>
    /\ last_fixes = NoFixes
    /\ fix_loop_idx = 0
    /\ changed = FALSE
    /\ crawler = 1
    /\ initial_linting_errors = << >>
    /\ initial_bound = FALSE
    /\ linted_file = None
    /\ first_pass = << >>
    /\ crawled = 0
    /\ versions = << >>
    /\ every_crawl_committed = TRUE
    /\ round_skipped = FALSE
    /\ exit_kind = "running"
    /\ crawl_memo = << >>
    /\ run = 1
    /\ first_run = None

PipeNext ==
    \/ /\ TemplaterProcess \/ Lex \/ Parse \/ LintStringHead \/ BuildLintedFile
       /\ UNCHANGED <<fsrest, violvars, batchvars, resultvars>>
    \/ /\ WhileHead \/ Crawl \/ EndIter
       /\ UNCHANGED <<fsvars, violvars, restvars>>

\* lint_string from the raw string to the LintedFile
PipeSpec == PipeInit /\ [][PipeNext]_vars

(***************************************************************************)
(* Linter.paths_from_path, lint_path, lint_paths and parse_path.           *)
(***************************************************************************)
\* the greatest number of paths handed to lint_paths
MaxPaths == 2

\* the greatest number of sql files of a directory
MaxFiles == 1

\* the greatest number of files of a LintingResult
MaxLinted == 2

\* what reading and linting a file does: it works, open() raises, or
\* lint_string raises
FileKinds == {"ok", "unreadable", "lint raises"}

\* What is at a path: nothing, a file, or a directory with or without a
\* .sqlfluffignore file; files are its sql files that the ignore file does
\* not match, sorted.
DiskEntries ==
    {[kind |-> "missing", files |-> << >>, ignore_file |-> FALSE]}
    \cup {[kind |-> "file", files |-> <<k>>, ignore_file |-> FALSE] :
             k \in FileKinds}
    \cup [kind : {"dir"}, files : ListsOf(FileKinds, MaxFiles),
          ignore_file : BOOLEAN]

\* the name of file i at path p; file 0 of a directory is its ignore file
FileId(p, i) == [path |-> p, file |-> i]

\* os.getcwd()
Cwd == 1

\* paths_from_path(path) up to the ignore file: raises, returns, or has an
\* ignore file to read
PathsFromPathHead(entry, ignore_missing) ==
    IF entry.kind = "missing"
    THEN IF ignore_missing THEN "return" ELSE "raise"
    ELSE IF entry.kind = "dir" /\ entry.ignore_file THEN "read ignore file"
         ELSE "return"

\* the file names paths_from_path(p) returns
FileNames(p) == [i \in 1..Len(disk[p].files) |-> FileId(p, i)]

\* where paths_from_path returns to
AfterPathsFromPath == IF op = "lint_paths" THEN "next_file" ELSE "gen_next_file"

\* lint_paths: if len(paths) == 0: paths = (os.getcwd(),); result = LintingResult()
LintPaths ==
    /\ op = "lint_paths"
    /\ b_pc = "start"
    /\ paths' = IF Len(paths) = 0 THEN <<Cwd>> ELSE paths
    /\ result' = << >>
    /\ path_idx' = 1
    /\ b_pc' = "next_path"
    /\ UNCHANGED <<op, disk, ignore_non_existent_files, fnames, fname_idx,
                   linted_path, open_files, exc, yielded>>

\* for path in paths: lint_path(path) is called: linted_path = LintedPath(path),
\* and paths_from_path is entered; after the last path: return result
LintPath ==
    /\ b_pc = "next_path"
    /\ IF path_idx > Len(paths)
       THEN /\ b_pc' = "returned"
            /\ UNCHANGED linted_path
       ELSE /\ linted_path' = [path |-> paths[path_idx], files |-> << >>]
            /\ b_pc' = "paths_from_path"
    /\ UNCHANGED <<op, disk, paths, ignore_non_existent_files, path_idx, fnames,
                   fname_idx, result, open_files, exc, yielded>>

\* paths_from_path: the existence test, the single file, the directory walk up
\* to the opening of the ignore file
PathsFromPath ==
    /\ b_pc = "paths_from_path"
    /\ LET p == paths[path_idx]
           head == PathsFromPathHead(disk[p], ignore_non_existent_files)
       IN  /\ head = "raise" =>
                 /\ b_pc' = "raised"
                 /\ exc' = "IOError: Specified path does not exist"
                 /\ UNCHANGED <<fnames, open_files>>
           /\ head = "read ignore file" =>
                 /\ b_pc' = "ignore_file"
                 /\ open_files' = open_files \cup {FileId(p, 0)}
                 /\ UNCHANGED <<fnames, exc>>
           /\ head = "return" =>
                 /\ b_pc' = AfterPathsFromPath
                 /\ fnames' = FileNames(p)
                 /\ UNCHANGED <<open_files, exc>>
    /\ fname_idx' = 1
    /\ UNCHANGED <<op, disk, paths, ignore_non_existent_files, path_idx,
                   linted_path, result, yielded>>

\* with open(fpath) as fh: spec = PathSpec.from_lines(fh); the with block is
\* left, the rest of the walk, return sorted(filtered_buffer)
ReadIgnoreFile ==
    /\ b_pc = "ignore_file"
    /\ open_files' = open_files \ {FileId(paths[path_idx], 0)}
    /\ fnames' = FileNames(paths[path_idx])
    /\ b_pc' = AfterPathsFromPath
    /\ UNCHANGED <<op, disk, paths, ignore_non_existent_files, path_idx,
                   fname_idx, linted_path, result, exc, yielded>>

\* lint_path: for fname in ...: with open(fname) as target_file; after the
\* last file: return linted_path, which lint_paths adds to the result
OpenTarget ==
    /\ b_pc = "next_file"
    /\ IF fname_idx > Len(fnames)
       THEN /\ result' = Append(result, linted_path)
            /\ path_idx' = path_idx + 1
            /\ b_pc' = "next_path"
            /\ UNCHANGED <<open_files, exc>>
       ELSE IF disk[paths[path_idx]].files[fname_idx] = "unreadable"
            THEN /\ b_pc' = "raised"
                 /\ exc' = "OSError from open"
                 /\ UNCHANGED <<result, path_idx, open_files>>
            ELSE /\ open_files' = open_files \cup {fnames[fname_idx]}
                 /\ b_pc' = "linting"
                 /\ UNCHANGED <<result, path_idx, exc>>
    /\ UNCHANGED <<op, disk, paths, ignore_non_existent_files, fnames,
                   fname_idx, linted_path, yielded>>

\* linted_path.add(self.lint_string(target_file.read(), ...)); the with block
\* is left, also when lint_string raises
LintTarget ==
    /\ b_pc = "linting"
    /\ open_files' = open_files \ {fnames[fname_idx]}
    /\ IF disk[paths[path_idx]].files[fname_idx] = "lint raises"
       THEN /\ b_pc' = "raised"
            /\ exc' = "exception from lint_string"
            /\ UNCHANGED <<linted_path, fname_idx>>
       ELSE /\ linted_path' =
                   [linted_path EXCEPT !.files = Append(@, fnames[fname_idx])]
            /\ fname_idx' = fname_idx + 1
            /\ b_pc' = "next_file"
            /\ UNCHANGED exc
    /\ UNCHANGED <<op, disk, paths, ignore_non_existent_files, path_idx, fnames,
                   result, yielded>>

\* parse_path(path) is called and the caller asks for the first result
ParsePath ==
    /\ op = "parse_path"
    /\ b_pc = "start"
    /\ path_idx' = 1
    /\ b_pc' = "paths_from_path"
    /\ UNCHANGED <<op, disk, paths, ignore_non_existent_files, fnames,
                   fname_idx, linted_path, result, open_files, exc, yielded>>

\* parse_path: for fname in ...: with open(fname) as target_file:
\* yield (*self.parse_string(target_file.read(), ...), config)
\* after the last file the generator is exhausted
ParsePathYield ==
    /\ b_pc = "gen_next_file"
    /\ IF fname_idx > Len(fnames)
       THEN /\ b_pc' = "exhausted"
            /\ UNCHANGED <<open_files, exc, yielded>>
       ELSE IF disk[paths[path_idx]].files[fname_idx] = "unreadable"
            THEN /\ b_pc' = "raised"
                 /\ exc' = "OSError from open"
                 /\ UNCHANGED <<open_files, yielded>>
            ELSE /\ open_files' = open_files \cup {fnames[fname_idx]}
                 /\ yielded' = <<fnames[fname_idx]>>
                 /\ b_pc' = "yielded"
                 /\ UNCHANGED exc
    /\ UNCHANGED <<op, disk, paths, ignore_non_existent_files, path_idx, fnames,
                   fname_idx, linted_path, result>>

\* The caller asks for the next result: the generator goes on after the
\* yield and leaves the with block.
ParsePathResume ==
    /\ b_pc = "yielded"
    /\ open_files' = open_files \ {fnames[fname_idx]}
    /\ yielded' = << >>
    /\ fname_idx' = fname_idx + 1
    /\ b_pc' = "gen_next_file"
    /\ UNCHANGED <<op, disk, paths, ignore_non_existent_files, path_idx, fnames,
                   linted_path, result, exc>>

\* The caller drops the generator: GeneratorExit is raised at the yield and
\* the with block is left.
ParsePathClose ==
    /\ b_pc = "yielded"
    /\ open_files' = open_files \ {fnames[fname_idx]}
    /\ yielded' = << >>
    /\ b_pc' = "closed"
    /\ UNCHANGED <<op, disk, paths, ignore_non_existent_files, path_idx, fnames,
                   fname_idx, linted_path, result, exc>>

\* lint_paths is called on up to MaxPaths paths, or parse_path on one path,
\* with anything on the disk.
BatchInit ==
    /\ LoopIdle
    /\ FixStringIdle
    /\ ViolIdle
    /\ PipeIdle
    /\ ResultIdle
    /\ op \in {"lint_paths", "parse_path"}
    /\ disk \in [1..MaxPaths -> DiskEntries]
    /\ IF op = "lint_paths"
       THEN /\ \E n \in 0..MaxPaths : paths = [i \in 1..n |-> i]
            /\ ignore_non_existent_files \in BOOLEAN
       ELSE /\ paths = <<1>>
            /\ ignore_non_existent_files = FALSE
    /\ b_pc = "start"
    /\ path_idx = 1
    /\ fnames = << >>
    /\ fname_idx = 1
    /\ linted_path = None
    /\ result = << >>
    /\ open_files = {}
    /\ exc = ""
    /\ yielded = << >>

BatchNext ==
    /\ \/ LintPaths \/ LintPath \/ PathsFromPath \/ ReadIgnoreFile
       \/ OpenTarget \/ LintTarget
       \/ ParsePath \/ ParsePathYield \/ ParsePathResume \/ ParsePathClose
    /\ UNCHANGED <<loopvars, fsvars, violvars, pipevars, resultvars>>

\* the operations on paths
BatchSpec == BatchInit /\ [][BatchNext]_vars

(***************************************************************************)
(* LintedPath and LintingResult: stats, as_records, persist_changes;       *)
(* LintedFile.persist_tree.                                                *)
(***************************************************************************)
\* a SQLLintError of rule Codes[i]
LintErr(i, line, pos, ig) ==
    [code |-> Codes[i], line_no |-> line, line_pos |-> pos, ignore |-> ig,
     fixable |-> (i = 1), kind |-> "linting"]

\* a SQLParseError
ParseErr(line, pos) ==
    [code |-> "PRS", line_no |-> line, line_pos |-> pos, ignore |-> FALSE,
     fixable |-> FALSE, kind |-> "parsing"]

\* noqa on line 1
NoqaLineOne == <<[line_no |-> 1, rules |-> [all |-> TRUE, codes |-> {}]]>>

\* The violations and ignore mask of the linted files: a clean file, a file
\* whose one violation is flagged ignore, one whose violation is hidden by
\* noqa, files with two violations not in (line_no, line_pos, code) order,
\* a file with a parse error only, a file with a hidden and a shown violation.
LintedFileContents ==
    {[violations |-> << >>, ignore_mask |-> << >>],
     [violations |-> <<LintErr(1, 1, 1, TRUE)>>, ignore_mask |-> << >>],
     [violations |-> <<LintErr(1, 1, 1, FALSE)>>, ignore_mask |-> NoqaLineOne],
     [violations |-> <<LintErr(2, 1, 1, FALSE), LintErr(1, 1, 1, FALSE)>>,
      ignore_mask |-> << >>],
     [violations |-> <<LintErr(1, 2, 1, FALSE), LintErr(2, 1, 2, FALSE)>>,
      ignore_mask |-> << >>],
     [violations |-> <<ParseErr(1, 1)>>, ignore_mask |-> << >>],
     [violations |-> <<LintErr(2, 1, 2, FALSE), ParseErr(1, 1)>>,
      ignore_mask |-> << >>],
     [violations |-> <<LintErr(1, 2, 2, FALSE), LintErr(1, 1, 1, FALSE)>>,
      ignore_mask |-> NoqaLineOne]}

\* names of the paths and of the files below them
DirNames == <<"p/", "q", "r/", "s/">>
FileRoots == <<"a", "b", "c">>

\* The path of file j of path k: the second path is a file without an
\* extension, the others are directories of .sql files.
FilePath(k, j) ==
    IF k = 2 THEN <<DirNames[k], FileRoots[j]>>
    ELSE <<DirNames[k], FileRoots[j], ".sql">>

\* os.path.splitext(fname): (root, ext)
SplitExt(fname) ==
    IF fname[Len(fname)] = ".sql"
    THEN [root |-> SubSeq(fname, 1, Len(fname) - 1), ext |-> <<fname[Len(fname)]>>]
    ELSE [root |-> fname, ext |-> << >>]

\* (variant: the suffix is not used)
TargetNameNoSuffix(fname, sfx) == fname

\* persist_tree: fname = self.path; if suffix: fname = root + suffix + ext
TargetName(fname, sfx) ==
    IF sfx # << >> THEN SplitExt(fname).root \o sfx \o SplitExt(fname).ext
    ELSE fname

\* persist_tree(suffix), given whether fix_string returned a changed string:
\* the files written and the returned flag
PersistTree(file, sfx, success) ==
    [writes |-> IF success
                THEN {[fname |-> TargetName(file.path, sfx), buff |-> file.path]}
                ELSE {},
     returned |-> success]

\* LintedFile.num_violations(fixable=...)
NumViolations(file, fixable_arg) ==
    Len(GetViolations(file.violations, file.ignore_mask, << >>, << >>, TRUE,
                      fixable_arg))

\* (variant: violations that are ignored make a file unclean)
IsCleanUnfiltered(file) == file.violations = << >>

\* LintedFile.is_clean()
IsClean(file) ==
    GetViolations(file.violations, file.ignore_mask, << >>, << >>, TRUE, << >>)
        = << >>

RECURSIVE SumOf(_)
\* sum(...)
SumOf(ns) == IF ns = << >> THEN 0 ELSE ns[1] + SumOf(Tail(ns))

\* LintedPath.stats()
PathStats(lp) ==
    [files |-> Len(lp.files),
     clean |-> Cardinality({j \in 1..Len(lp.files) : IsClean(lp.files[j])}),
     unclean |-> Cardinality({j \in 1..Len(lp.files) : ~IsClean(lp.files[j])}),
     violations |->
         SumOf([j \in 1..Len(lp.files) |-> NumViolations(lp.files[j], << >>)])]

\* LintingResult.stats(); a quotient is kept as numerator and denominator
Stats(res) ==
    LET ps == [k \in 1..Len(res) |-> PathStats(res[k])]
        files == SumOf([k \in 1..Len(res) |-> ps[k].files])
        clean == SumOf([k \in 1..Len(res) |-> ps[k].clean])
        unclean == SumOf([k \in 1..Len(res) |-> ps[k].unclean])
        nviol == SumOf([k \in 1..Len(res) |-> ps[k].violations])
    IN  [files |-> files, clean |-> clean, unclean |-> unclean,
         violations |-> nviol,
         avg_per_file |-> IF files > 0 THEN [num |-> nviol, den |-> files]
                          ELSE [num |-> 0, den |-> 1],
         unclean_rate |-> IF files > 0 THEN [num |-> unclean, den |-> files]
                          ELSE [num |-> 0, den |-> 1],
         clean_files |-> clean, unclean_files |-> unclean,
         exit_code |-> IF nviol > 0 THEN 65 ELSE 0,
         status |-> IF nviol > 0 THEN "FAIL" ELSE "PASS"]

\* v.get_info_dict(), as far as as_records sorts by it
InfoDict(v) == [line_no |-> v.line_no, line_pos |-> v.line_pos, code |-> v.code]

\* the codes in the order of their strings
CodeOrder == <<"L001", "L002", "PRS">>

CodePlace(code) == CHOOSE i \in 1..Len(CodeOrder) : CodeOrder[i] = code

\* (line_no, line_pos, code) of a is not after that of b
KeyLeq(a, b) ==
    \/ a.line_no < b.line_no
    \/ a.line_no = b.line_no /\ a.line_pos < b.line_pos
    \/ a.line_no = b.line_no /\ a.line_pos = b.line_pos
           /\ CodePlace(a.code) <= CodePlace(b.code)

\* (variant: the violations are left in the order of the file)
Unsorted(ds) == ds

RECURSIVE SortedByKey(_)
\* sorted(..., key=lambda v: (v["line_no"], v["line_pos"], v["code"]))
SortedByKey(ds) ==
    IF ds = << >> THEN << >>
    ELSE LET last == ds[Len(ds)]
             front == SortedByKey(SubSeq(ds, 1, Len(ds) - 1))
         IN  SelectSeq(front, LAMBDA d : KeyLeq(d, last)) \o <<last>>
                 \o SelectSeq(front, LAMBDA d : ~KeyLeq(d, last))

\* the records as_records makes of one LintedPath
PathRecords(lp) ==
    LET shown == SelectSeq(lp.files, LAMBDA f : NumViolations(f, << >>) > 0)
    IN  [j \in 1..Len(shown) |->
            LET got == GetViolations(shown[j].violations, shown[j].ignore_mask,
                                     << >>, << >>, TRUE, << >>)
            IN  [filepath |-> shown[j].path,
                 violations |->
                     SortedByKey([i \in 1..Len(got) |-> InfoDict(got[i])])]]

\* LintingResult.as_records()
AsRecords(res) == Flatten([k \in 1..Len(res) |-> PathRecords(res[k])])

\* the files of the result, as (path index, file index)
FilesOf(res) ==
    {kj \in (1..Len(res)) \X (1..MaxLinted) : kj[2] <= Len(res[kj[1]].files)}

\* LintingResult.add(LintedPath(path))
AddPath ==
    /\ r_pc = "building"
    /\ Len(linting_result) < MaxPaths
    /\ linting_result' =
           Append(linting_result,
                  [path |-> DirNames[Len(linting_result) + 1], files |-> << >>])
    /\ UNCHANGED <<r_pc, stats_result, records, persist_buffer, written,
                   fixed_file_suffix>>

\* LintedPath.add(file) on the path added last
AddFile ==
    /\ r_pc = "building"
    /\ linting_result # << >>
    /\ Cardinality(FilesOf(linting_result)) < MaxLinted
    /\ LET k == Len(linting_result)
           j == Len(linting_result[k].files) + 1
       IN  /\ \E c \in LintedFileContents :
                 linting_result' =
                     [linting_result EXCEPT ![k].files =
                         Append(@, [path |-> FilePath(k, j),
                                    violations |-> c.violations,
                                    ignore_mask |-> c.ignore_mask])]
    /\ UNCHANGED <<r_pc, stats_result, records, persist_buffer, written,
                   fixed_file_suffix>>

\* result.stats()
StatsCall ==
    /\ r_pc = "building"
    /\ stats_result' = Stats(linting_result)
    /\ r_pc' = "stats"
    /\ UNCHANGED <<linting_result, records, persist_buffer, written,
                   fixed_file_suffix>>

\* result.as_records()
AsRecordsCall ==
    /\ r_pc = "building"
    /\ records' = AsRecords(linting_result)
    /\ r_pc' = "records"
    /\ UNCHANGED <<linting_result, stats_result, persist_buffer, written,
                   fixed_file_suffix>>

\* result.persist_changes(fixed_file_suffix=...): for every file of every path
\* persist_tree if it has fixable violations, else True; fix_string may or may
\* not change each file (kept in `changed` next to the entry of the buffer)
PersistChanges ==
    /\ r_pc = "building"
    /\ \E sfx \in {<< >>, <<"_fixed">>},
          changes \in [FilesOf(linting_result) -> BOOLEAN] :
          LET File(kj) == linting_result[kj[1]].files[kj[2]]
              Persisted(kj) ==
                  IF NumViolations(File(kj), <<TRUE>>) > 0
                  THEN PersistTree(File(kj), sfx, changes[kj])
                  ELSE [writes |-> {}, returned |-> TRUE]
          IN  /\ fixed_file_suffix' = sfx
              /\ persist_buffer' =
                     {[path |-> File(kj).path, result |-> Persisted(kj).returned,
                       changed |-> changes[kj]] :
                         kj \in FilesOf(linting_result)}
              /\ written' =
                     UNION {Persisted(kj).writes : kj \in FilesOf(linting_result)}
    /\ r_pc' = "persisted"
    /\ UNCHANGED <<linting_result, stats_result, records>>

\* A LintingResult is built by add operations and then asked for its stats,
\* its records, or to persist its fixes.
ResultInit ==
    /\ LoopIdle
    /\ FixStringIdle
    /\ ViolIdle
    /\ PipeIdle
    /\ BatchIdle
    /\ r_pc = "building"
    /\ linting_result = << >>
    /\ stats_result = None
    /\ records = << >>
    /\ persist_buffer = {}
    /\ written = {}
    /\ fixed_file_suffix = << >>

ResultNext ==
    /\ AddPath \/ AddFile \/ StatsCall \/ AsRecordsCall \/ PersistChanges
    /\ UNCHANGED <<loopvars, fsvars, violvars, pipevars, batchvars>>

\* the operations on a LintingResult
ResultSpec == ResultInit /\ [][ResultNext]_vars

(***************************************************************************)
(* Properties of the fix loop.                                             *)
(***************************************************************************)
LoopLeft == pc \in {"after_loop", "returned", "raised"}

\* C1: for every rule list, rule behaviour and runaway limit L the while
\* loop is left eventually, and the rule list is crawled in at most L
\* iterations.  (LiveSpec)
C1_FixLoopTerminates == <>LoopLeft /\ [](crawled <= loop_limit)

\* C1 witness: the loop is left through the limit after MaxLimit iterations
\* in which every crawl committed a new tree.
C1_Witness ==
    /\ pc = "after_loop"
    /\ exit_kind = "limit"
    /\ Len(ruleset) >= 1
    /\ every_crawl_committed
    /\ loop_limit = MaxLimit
    /\ crawled = loop_limit

LintingOf(vs) == SelectSeq(vs, LAMBDA v : v.kind = "linting")

Unflagged(vs) == [i \in 1..Len(vs) |-> [vs[i] EXCEPT !.ignore = FALSE]]

\* C2: the linting violations of the returned LintedFile are exactly the
\* violations the rules returned while fix_loop_idx = 1, in crawl order
\* (ignore_if_in may have flagged them); what later rounds returned is not
\* part of the result.
C2_OnlyFirstPassReported ==
    pc = "returned" =>
        Unflagged(LintingOf(linted_file.violations)) = first_pass

\* C2 witness: a returned run of at least two rounds in which round 1 and a
\* later round both returned violations.
C2_Witness ==
    /\ pc = "returned"
    /\ crawled >= 2
    /\ Len(first_pass) >= 1
    /\ Len(linting_errors) > Len(first_pass)

SameRawAsFirstRun == RawOf(linted_file.tree) = RawOf(first_run.tree)

\* C3 (as claimed): with deterministic rules, whenever the first run left the
\* loop without reaching the runaway limit, the run on its result returns a
\* tree with the same raw text - also when the first run ended on a skipped
\* edit.  (TwiceSpec)
C3_FixIsIdempotent ==
    (run = 2 /\ pc = "returned" /\ first_run.exit_kind # "limit")
        => SameRawAsFirstRun

\* C3 (amended): with deterministic rules, whenever the first run left the
\* loop without reaching the runaway limit and no edit set was skipped by the
\* last_fixes or previous_versions guard in its last iteration, the run on
\* its result returns a tree with the same raw text.  (TwiceSpec)
C3_FixIsIdempotentUnlessSkipped ==
    (run = 2 /\ pc = "returned" /\ first_run.exit_kind # "limit"
        /\ ~first_run.skipped)
        => SameRawAsFirstRun

\* C3 witness: the second run has returned, the first one changed the tree
\* and ended with nothing skipped and below the limit.
C3_Witness ==
    /\ run = 2
    /\ pc = "returned"
    /\ first_run.exit_kind # "limit"
    /\ ~first_run.skipped
    /\ first_run.tree # ParsedTree

TreeA == ParsedTree

TreeB == [raw |-> 1]

\* Rule `code` proposed an edit exactly on tree `from`, and it gave tree `to`.
ProposesOnlyOn(code, from, to) ==
    \A key \in DOMAIN crawl_memo :
        key[1] = code =>
            IF key[2] = from
            THEN /\ crawl_memo[key] # NoFixes
                 /\ ApplyFixes(from, crawl_memo[key]) = to
            ELSE crawl_memo[key] = NoFixes

OscillatingRules ==
    /\ ruleset = <<"L001", "L002">>
    /\ fix
    /\ ProposesOnlyOn("L001", TreeA, TreeB)
    /\ ProposesOnlyOn("L002", TreeB, TreeA)

\* C8 (as claimed): with rule 1 proposing A->B whenever the tree is A and
\* rule 2 proposing B->A whenever the tree is B, the loop started from A
\* commits A->B and nothing else, and returns a tree with raw text B without
\* reaching the runaway limit.  (TwiceSpec)
C8_OscillationGuard ==
    (run = 1 /\ OscillatingRules) =>
        /\ versions \in {<<TreeA>>, <<TreeA, TreeB>>}
        /\ pc = "returned" =>
              /\ versions = <<TreeA, TreeB>>
              /\ RawOf(linted_file.tree) = RawOf(TreeB)
              /\ exit_kind # "limit"

\* C8 (amended): with the same two rules and a runaway limit of at least 1,
\* the loop started from A commits A->B and nothing else and returns a tree
\* with raw text B; it is left without reaching the runaway limit exactly
\* when the limit is at least 2.  (TwiceSpec)
C8_OscillationGuardFromLimitTwo ==
    (run = 1 /\ OscillatingRules /\ loop_limit >= 1) =>
        /\ versions \in {<<TreeA>>, <<TreeA, TreeB>>}
        /\ pc = "returned" =>
              /\ versions = <<TreeA, TreeB>>
              /\ RawOf(linted_file.tree) = RawOf(TreeB)
              /\ (exit_kind # "limit") <=> (loop_limit >= 2)

\* C8 witness: the oscillating pair has run to the end, rule 2 having
\* proposed B->A.
C8_Witness ==
    /\ run = 1
    /\ pc = "returned"
    /\ OscillatingRules
    /\ loop_limit >= 2
    /\ <<"L001", TreeA>> \in DOMAIN crawl_memo
    /\ <<"L002", TreeB>> \in DOMAIN crawl_memo

\* C9: when every crawl proposes an edit that gives a new raw text, the loop
\* is left through the limit after exactly L iterations and the LintedFile
\* holds the working tree as last committed: one commit per crawl, none lost.
C9_RunawayKeepsAllFixes ==
    (pc = "returned" /\ fix /\ Len(ruleset) >= 1 /\ every_crawl_committed) =>
        /\ exit_kind = "limit"
        /\ crawled = loop_limit
        /\ Len(versions) = 1 + loop_limit * Len(ruleset)
        /\ working = versions[Len(versions)]
        /\ linted_file.tree = working

\* C9 witness: such a run of MaxLimit iterations has returned.
C9_Witness ==
    /\ pc = "returned"
    /\ fix
    /\ Len(ruleset) >= 1
    /\ every_crawl_committed
    /\ loop_limit = MaxLimit

(***************************************************************************)
(* Properties of fix_string.                                               *)
(***************************************************************************)
\* the number of places at which sub occurs in str
Occurrences(sub, str) ==
    Cardinality({k \in 0..(Len(str) - Len(sub)) :
                    SubSeq(str, k + 1, k + Len(sub)) = sub})

\* the number of slices of the buffer that hold source offset k
Holders(buff, k) ==
    Cardinality({i \in 1..Len(buff) : buff[i].start <= k /\ k < buff[i].stop})

\* C4: whatever the source-space patches and the untouchable ranges, the
\* string fix_string returns holds the source text of every untouchable range
\* unchanged and exactly once (the characters of the source are all different
\* here, and no replacement text uses them).
C4_UntouchablesPreserved ==
    fs_pc = "returned" =>
        \A i \in 1..Len(untouchables_at_call) :
            Occurrences(Cut(templated_file.source_str, untouchables_at_call[i]),
                        fix_string_result.str) = 1

\* C5: once the slice buffer is built, every source offset lies in exactly one
\* of its slices, whatever the patches and the untouchable ranges.
C5_SliceBufferTiles ==
    fs_pc \in {"render", "returned"} =>
        \A k \in 0..(Len(templated_file.source_str) - 1) :
            Holders(slice_buff, k) = 1

\* the tree as parsed: its raw text is the templated string
Clean(seg, tf) == seg.raw = Cut(tf.templated_str, seg.templated_slice)

\* C6: when the raw text of the tree is the templated string, no patch is
\* derived, and fix_string returns the source string with changed = false.
C6_IdentityWhenClean ==
    (fs_pc = "returned" /\ Clean(tree, templated_file)) =>
        /\ templated_patches = << >>
        /\ patches = << >>
        /\ fix_string_result.str = templated_file.source_str
        /\ ~fix_string_result.changed

\* fix_string has returned for a clean tree of a file with untouchable ranges
C6_Witness ==
    /\ fs_pc = "returned"
    /\ Clean(tree, templated_file)
    /\ untouchables_at_call # << >>
    /\ Len(slice_buff) = 1

\* `SELECT id FROM t` with the leaf `id` edited to `user_id`
RenamedTree ==
    FileSegment(JinjaFile, EditLeaf(LeavesFrom(JinjaFile, JinjaTokens, 0), 3))

\* C7: for `SELECT {{col}} FROM t`, after a fix renamed the leaf `id` to
\* `user_id`, fix_string returns the source unchanged.
C7_TemplatedRegionPreserved ==
    (fs_pc = "returned" /\ templated_file = JinjaFile /\ tree = RenamedTree) =>
        /\ fix_string_result.str = JinjaFile.source_str
        /\ ~fix_string_result.changed

(***************************************************************************)
(* Properties of check_tuples.                                             *)
(***************************************************************************)
\* C10 (as claimed): the tuples check_tuples returns are in nondecreasing
\* (line_no, line_pos, code) order, whatever the order in which the
\* violations were produced.
C10_CheckTuplesSorted ==
    vs_pc = "returned" =>
        \A i \in 1..Len(check_tuples_result.tuples) :
            \A j \in i..Len(check_tuples_result.tuples) :
                TupleLeq(check_tuples_result.tuples[i],
                         check_tuples_result.tuples[j])

\* the indices of the violations that are neither flagged ignore nor hidden
\* by an entry of the ignore mask
Kept ==
    {i \in 1..Len(violations) :
        /\ ~violations[i].ignore
        /\ \A m \in 1..Len(ignore_mask) : ~Masked(violations[i], ignore_mask[m])}

\* C10 (amended): check_tuples returns one tuple (code, line_no, line_pos)
\* per violation that is neither flagged ignore nor hidden by the ignore
\* mask, in the order in which the violations are stored, that is the order
\* in which they were produced.
C10_CheckTuplesInStoredOrder ==
    vs_pc = "returned" =>
        LET got == check_tuples_result.tuples IN
        /\ Len(got) = Cardinality(Kept)
        /\ \A n \in 1..Len(got) :
              \E i \in Kept :
                  /\ Cardinality({k \in Kept : k <= i}) = n
                  /\ got[n] = <<violations[i].code, violations[i].line_no,
                                violations[i].line_pos>>

\* C10 witness: check_tuples returned two tuples that are out of order.
C10_Witness ==
    /\ vs_pc = "returned"
    /\ Len(check_tuples_result.tuples) = 2
    /\ ~TupleLeq(check_tuples_result.tuples[1], check_tuples_result.tuples[2])

(***************************************************************************)
(* Properties of get_violations.                                           *)
(***************************************************************************)
\* the number of places of seq that hold v
Count(seq, v) == Cardinality({i \in 1..Len(seq) : seq[i] = v})

\* v passes the types, rules and fixable filters of the call
PassesFilters(v, args) ==
    /\ args.types = << >> \/ \E i \in 1..Len(args.types) : v.kind = args.types[i]
    /\ args.rules = << >> \/ \E i \in 1..Len(args.rules) : v.code = args.rules[i]
    /\ args.fixable = << >> \/ v.fixable = args.fixable[1]

\* v has its ignore flag set, or an entry of the mask is on the line of v with
\* rules ALL or with the code of v among its rules
Ignored(v) ==
    \/ v.ignore
    \/ \E m \in 1..Len(ignore_mask) :
          /\ ignore_mask[m].line_no = v.line_no
          /\ ignore_mask[m].rules.all \/ v.code \in ignore_mask[m].rules.codes

\* C11: with filter_ignore on, get_violations drops a violation (that the
\* other filters let through) if and only if its ignore flag is set or an
\* entry of the ignore mask is on its line with rules ALL or containing its
\* code; every other violation is returned as often as it is stored.  So an
\* entry for rule R on line n hides nothing of another rule or another line,
\* and an ALL entry on line n hides all of line n and nothing else.
C11_IgnoreMask ==
    (vs_pc = "got_violations" /\ get_violations_args.filter_ignore) =>
        \A i \in 1..Len(violations) :
            LET v == violations[i] IN
            Count(get_violations_result, v) =
                IF Ignored(v) \/ ~PassesFilters(v, get_violations_args)
                THEN 0
                ELSE Count(violations, v)

\* C11 witness: a call with filter_ignore on for a file with an entry for one
\* rule on a line that holds a violation of that rule, which is dropped, and
\* a violation of another rule, which is returned.
C11_Witness ==
    /\ vs_pc = "got_violations"
    /\ get_violations_args.filter_ignore
    /\ get_violations_args.rules = << >>
    /\ Len(ignore_mask) = 1
    /\ ~ignore_mask[1].rules.all
    /\ Len(violations) = 2
    /\ violations[1].line_no = ignore_mask[1].line_no
    /\ violations[2].line_no = ignore_mask[1].line_no
    /\ violations[1].code \in ignore_mask[1].rules.codes
    /\ violations[2].code = Codes[2]
    /\ ~violations[1].ignore
    /\ ~violations[2].ignore
    /\ get_violations_result = <<violations[2]>>

(***************************************************************************)
(* Properties of the patch deriver.                                        *)
(***************************************************************************)
\* the leaves of `SELECT 1 FROM t`; FROM is the fifth
PlainLeaves == LeavesFrom(PlainFile, PlainTokens, 0)

\* the leaves of `SELECT id FROM t`; FROM is the fifth
JinjaLeaves == LeavesFrom(JinjaFile, JinjaTokens, 0)

\* the whitespace before FROM deleted and a newline created before FROM:
\* the raw text is `SELECT 1\nFROM t`
NewlineTree ==
    FileSegment(PlainFile, CreateBefore(DeleteLeaf(PlainLeaves, 4), 4))

\* a newline created before FROM: the raw text is `SELECT 1 \nFROM t`
InsertedTree == FileSegment(PlainFile, CreateBefore(PlainLeaves, 5))

\* the same fix on the templated file
JinjaInsertedTree == FileSegment(JinjaFile, CreateBefore(JinjaLeaves, 5))

\* C12 (as claimed): for `SELECT 1 FROM t` with a newline segment inserted
\* before FROM, the patch deriver emits exactly one patch, with an empty
\* range at the templated start of FROM and the inserted text as replacement,
\* and fix_string returns `SELECT 1\nFROM t`.
C12_InsertionPatchBeforeAnchor ==
    (fs_pc = "returned" /\ templated_file = PlainFile /\ tree = NewlineTree) =>
        /\ Len(templated_patches) = 1
        /\ templated_patches[1].slice = Sl(PlainLeaves[5].templated_slice.start,
                                           PlainLeaves[5].templated_slice.start)
        /\ templated_patches[1].text = NL
        /\ fix_string_result.str = SELECT \o SP \o ONE \o NL \o FROM \o SP \o TBL

\* C12 (amended): for `SELECT 1 FROM t`, whose root segment is literal, any
\* fix that changes the raw text gives exactly one patch: the whole templated
\* range with the raw text of the fixed tree as replacement, and fix_string
\* returns that raw text (`SELECT 1\nFROM t` when the whitespace before FROM
\* was replaced by the newline, `SELECT 1 \nFROM t` when the newline was only
\* inserted).  A patch with an empty range at the templated start of FROM and
\* the inserted text as replacement is what the same insertion gives in
\* `SELECT {{col}} FROM t`, whose root is not literal.
C12_LiteralRootPatch ==
    fs_pc = "returned" =>
        /\ (templated_file = PlainFile /\ ~Clean(tree, templated_file)) =>
              /\ templated_patches =
                     <<TPatch(Sl(0, Len(PlainFile.templated_str)), tree.raw, 0)>>
              /\ fix_string_result.str = tree.raw
              /\ fix_string_result.changed
        /\ tree = NewlineTree =>
              fix_string_result.str = SELECT \o SP \o ONE \o NL \o FROM \o SP \o TBL
        /\ tree = InsertedTree =>
              fix_string_result.str =
                  SELECT \o SP \o ONE \o SP \o NL \o FROM \o SP \o TBL
        /\ tree = JinjaInsertedTree =>
              /\ templated_patches =
                     <<TPatch(Sl(JinjaLeaves[5].templated_slice.start,
                                 JinjaLeaves[5].templated_slice.start), NL, 0)>>

\* C12 witness: fix_string has returned for `SELECT 1 FROM t` with the
\* whitespace before FROM replaced by an inserted newline.
C12_Witness ==
    /\ fs_pc = "returned"
    /\ templated_file = PlainFile
    /\ tree = NewlineTree
    /\ Len(templated_patches) = 1

(***************************************************************************)
(* Properties of the source reconstruction.                                *)
(***************************************************************************)
\* C13 (as claimed): whatever the patches and the untouchable ranges, the
\* string fix_string returns is the source exactly when no patch is left
\* after deduplication, and changed is true exactly when a patch is left.
C13_UnchangedIffNoPatches ==
    fs_pc = "returned" =>
        /\ (fix_string_result.str = templated_file.source_str) <=> (patches = << >>)
        /\ fix_string_result.changed <=> (patches # << >>)

\* C13 (amended): changed is true exactly when the returned string is not
\* the source; when no patch is left after deduplication the returned string
\* is the source, so changed implies that a patch was left.  (Patches may be
\* left and the source returned all the same.)
C13_ChangedOnlyWithPatches ==
    fs_pc = "returned" =>
        /\ fix_string_result.changed <=>
               (fix_string_result.str # templated_file.source_str)
        /\ patches = << >> => fix_string_result.str = templated_file.source_str

\* C13 witness: fix_string returned the source with changed = false although
\* a patch with a replacement text was left.
C13_Witness ==
    /\ fs_pc = "returned"
    /\ Len(patches) = 1
    /\ patches[1].text # << >>
    /\ fix_string_result.str = templated_file.source_str
    /\ ~fix_string_result.changed

(***************************************************************************)
(* Properties of linting without fixing.                                   *)
(***************************************************************************)
\* no edit set was applied: working, previous_versions and last_fixes are as
\* they were set before the loop
LoopStateUntouched ==
    /\ working = ParsedTree
    /\ previous_versions = {RawOf(ParsedTree)}
    /\ last_fixes = NoFixes
    /\ versions = <<ParsedTree>>

\* the loop ran one iteration, in which every rule was crawled once
OneIteration ==
    /\ crawled = 1
    /\ fix_loop_idx = 1
    /\ crawler = Len(ruleset) + 1
    /\ exit_kind = "round1"

\* C14 (as claimed): when fix is false the loop runs exactly one iteration
\* with every rule crawled once, no edit set is applied, working,
\* previous_versions and last_fixes keep their initial values and the
\* returned tree is the parsed tree.
C14_NoFixSingleIteration ==
    ~fix =>
        /\ LoopStateUntouched
        /\ LoopLeft => OneIteration
        /\ pc = "returned" => linted_file.tree = ParsedTree

\* What the loop does without fix for every limit: no edit set is ever
\* applied and working, previous_versions and last_fixes keep their initial
\* values; with a
\* runaway limit of at least 1 the loop runs exactly one iteration with every
\* rule crawled once and the returned tree is the parsed tree; with a limit
\* below 1 the loop is left before any rule is crawled and nothing is
\* returned.
NoFixSingleIterationFromLimitOne ==
    ~fix =>
        /\ LoopStateUntouched
        /\ (LoopLeft /\ loop_limit >= 1) => OneIteration
        /\ (LoopLeft /\ loop_limit < 1) => (crawled = 0 /\ pc # "returned")
        /\ pc = "returned" => linted_file.tree = ParsedTree

\* Without fix and with a limit of at least 1, lint_string returned after two rules were
\* crawled and both reported a violation.
NoFixTwoRulesReturned ==
    /\ ~fix
    /\ pc = "returned"
    /\ Len(ruleset) = 2
    /\ Len(linting_errors) = 2
    /\ OneIteration

(***************************************************************************)
(* Properties of the pipeline of lint_string.                              *)
(***************************************************************************)
\* neither a rule was crawled nor the fix loop entered
NoRuleRun ==
    /\ "linting" \notin stages
    /\ crawled = 0
    /\ fix_loop_idx = 0
    /\ linting_errors = << >>
    /\ pc \notin {"while", "crawl", "end_iter", "after_loop"}

\* C15: if the templater returns no templated file, the lexer, the parser and
\* the fix loop are never run and the LintedFile has tree None and exactly the
\* templater's violations; if the lexer raises, exactly that one error is
\* appended, tokens is None and neither the parser nor a rule is run; if the
\* parser raises, the error is recorded, the tree is None and no rule is run.
C15_PipelineShortCircuit ==
    /\ ("templater" \in stages /\ templated_file = None) =>
          /\ stages = {"templater"}
          /\ NoRuleRun
          /\ lex_tokens = None
          /\ Unflagged(parse_vs) = templater_violations
          /\ pc = "returned" =>
                /\ linted_file.tree = None
                /\ Unflagged(linted_file.violations) = templater_violations
    /\ "lexer raised" \in stages =>
          /\ Unflagged(parse_vs) = Append(templater_violations, LexError(TRUE))
          /\ lex_tokens = None
          /\ "parser" \notin stages
          /\ NoRuleRun
          /\ pc = "returned" => linted_file.tree = None
    /\ "parser raised" \in stages =>
          /\ parse_vs # << >>
          /\ Unflagged(parse_vs)[Len(parse_vs)] = ParseError
          /\ parsed = None
          /\ NoRuleRun
          /\ pc = "returned" =>
                /\ linted_file.tree = None
                /\ linted_file.violations = parse_vs

\* C15 witness: the lexer raised after the templater had returned a file and a
\* violation, and lint_string returned a LintedFile.
C15_Witness ==
    /\ pc = "returned"
    /\ "lexer raised" \in stages
    /\ templater_violations # << >>
    /\ Len(linted_file.violations) = 2

(***************************************************************************)
(* Properties of the operations on paths.                                  *)
(***************************************************************************)
\* the files of the given paths that can be read and linted
Lintable ==
    {FileId(paths[k], i) : k \in 1..Len(paths), i \in 1..MaxFiles} \cap
    {f \in UNION {{FileNames(paths[k])[i] : i \in 1..Len(FileNames(paths[k]))} :
                     k \in 1..Len(paths)} :
        disk[f.path].files[f.file] = "ok"}

\* the files in the LintingResult
Linted ==
    UNION {{result[k].files[i] : i \in 1..Len(result[k].files)} :
              k \in 1..Len(result)}

\* lint_paths is over, one way or the other
LintPathsOver == op = "lint_paths" /\ b_pc \in {"returned", "raised"}

\* C16: a missing path, an unreadable file or an exception raised while one
\* file is linted never aborts lint_paths: it returns a LintingResult, and
\* every other file of the given paths is in it.
C16_BatchFailureIsolation ==
    LintPathsOver =>
        /\ b_pc = "returned"
        /\ Lintable \subseteq Linted

\* the caller has control: the operation returned or raised, or the
\* generator of parse_path is suspended, exhausted or closed
CallerHasControl ==
    b_pc \in {"returned", "raised", "yielded", "exhausted", "closed"}

\* C17: every file the linter opened is closed when control is with the
\* caller, also after an error and also while the caller of parse_path holds
\* a yielded result; at most one file is open at a time.
C17_FilesClosedBeforeReturn ==
    /\ Cardinality(open_files) <= 1
    /\ CallerHasControl => open_files = {}
    /\ yielded # << >> => yielded[1] \notin open_files

\* What holds of the file handles: at most one file is open at a time, and
\* none once lint_paths returned or raised or the generator of parse_path is
\* exhausted, closed or left by an exception.
FilesClosedButAtYield ==
    /\ Cardinality(open_files) <= 1
    /\ (CallerHasControl /\ b_pc # "yielded") => open_files = {}

(***************************************************************************)
(* Properties of the LintingResult.                                        *)
(***************************************************************************)
\* the files of the result
ResultFiles ==
    {linting_result[kj[1]].files[kj[2]] : kj \in FilesOf(linting_result)}

\* the violations of file f that are neither flagged ignore nor hidden by its
\* ignore mask, as indexes
Unignored(f) ==
    {i \in 1..Len(f.violations) :
        /\ ~f.violations[i].ignore
        /\ \A m \in 1..Len(f.ignore_mask) :
              ~(/\ f.ignore_mask[m].line_no = f.violations[i].line_no
                /\ \/ f.ignore_mask[m].rules.all
                   \/ f.violations[i].code \in f.ignore_mask[m].rules.codes)}

\* what persist_changes recorded for file f
BufferOf(f) == CHOOSE e \in persist_buffer : e.path = f.path

\* the files written from the fixed text of f
WritesOf(f) == {w \in written : w.buff = f.path}

\* C18: persist_tree writes a file if and only if fix_string's output differs
\* from the source, to the file's own path without a suffix and to
\* root + suffix + ext with one, and returns that flag; persist_changes never
\* writes a file without a fixable unignored violation and records True for
\* it.
C18_PersistWritesIffChanged ==
    r_pc = "persisted" =>
        \A f \in ResultFiles :
            IF \E i \in Unignored(f) : f.violations[i].fixable
            THEN /\ BufferOf(f).result = BufferOf(f).changed
                 /\ WritesOf(f) # {} <=> BufferOf(f).changed
                 /\ \A w \in WritesOf(f) :
                       w.fname =
                           IF fixed_file_suffix = << >> THEN f.path
                           ELSE SplitExt(f.path).root \o fixed_file_suffix
                                    \o SplitExt(f.path).ext
            ELSE /\ BufferOf(f).result = TRUE
                 /\ WritesOf(f) = {}

\* C18 witness: with a suffix, one file with a fixable violation was changed
\* and written next to the original, and a file with violations but no
\* fixable unignored one was left alone.
C18_Witness ==
    /\ r_pc = "persisted"
    /\ fixed_file_suffix # << >>
    /\ \E w \in written : w.fname = <<"p/", "a", "_fixed", ".sql">>
    /\ \E f \in ResultFiles :
          /\ f.violations # << >>
          /\ WritesOf(f) = {}
          /\ BufferOf(f).changed

\* C19: files = clean + unclean; the exit code is 65 if and only if there is
\* an unignored violation, else 0; the status is FAIL if and only if the exit
\* code is 65, else PASS; unclean > 0 if and only if violations > 0; without
\* files the average per file and the unclean rate are 0.
C19_StatsInvariants ==
    r_pc = "stats" =>
        LET st == stats_result
            unignored == \E f \in ResultFiles : Unignored(f) # {}
        IN  /\ st.files = Cardinality(FilesOf(linting_result))
            /\ st.files = st.clean + st.unclean
            /\ st.exit_code \in {0, 65}
            /\ st.exit_code = 65 <=> unignored
            /\ st.violations > 0 <=> unignored
            /\ st.status \in {"PASS", "FAIL"}
            /\ st.status = "FAIL" <=> st.exit_code = 65
            /\ st.unclean > 0 <=> st.violations > 0
            /\ st.files = 0 =>
                  /\ st.avg_per_file.num = 0
                  /\ st.unclean_rate.num = 0

\* C19 witness: stats of a result with a clean file whose only violation is
\* ignored and an unclean file.
C19_Witness ==
    /\ r_pc = "stats"
    /\ stats_result.clean = 1
    /\ stats_result.unclean = 1
    /\ \E f \in ResultFiles : f.violations # << >> /\ Unignored(f) = {}

\* the violations of a record are those of the unignored violations of f,
\* each as often
SameViolations(rec, f) ==
    /\ Len(rec.violations) = Cardinality(Unignored(f))
    /\ \A i \in Unignored(f) :
          Cardinality({n \in 1..Len(rec.violations) :
                          rec.violations[n] = InfoDict(f.violations[i])})
          = Cardinality({n \in Unignored(f) :
                            InfoDict(f.violations[n]) = InfoDict(f.violations[i])})

\* C20: as_records returns one record per linted file with at least one
\* unignored violation and none for the other files; the violations of a
\* record are in nondecreasing (line_no, line_pos, code) order and are a
\* permutation of the unignored violations of the file.
C20_RecordsSortedPerFile ==
    r_pc = "records" =>
        /\ \A f \in ResultFiles :
              Cardinality({n \in 1..Len(records) : records[n].filepath = f.path})
                  = IF Unignored(f) # {} THEN 1 ELSE 0
        /\ \A n \in 1..Len(records) :
              /\ \E f \in ResultFiles :
                    records[n].filepath = f.path /\ SameViolations(records[n], f)
              /\ \A i \in 1..(Len(records[n].violations) - 1) :
                    LET a == records[n].violations[i]
                        b == records[n].violations[i + 1]
                    IN  \/ a.line_no < b.line_no
                        \/ a.line_no = b.line_no /\ a.line_pos < b.line_pos
                        \/ a.line_no = b.line_no /\ a.line_pos = b.line_pos
                               /\ CodePlace(a.code) <= CodePlace(b.code)

\* C20 witness: a file whose two violations are stored out of order has a
\* record, a clean file added with it has none.
C20_Witness ==
    /\ r_pc = "records"
    /\ Len(records) = 1
    /\ Cardinality(ResultFiles) = 2
    /\ \E f \in ResultFiles :
          /\ f.path = records[1].filepath
          /\ Len(f.violations) = 2
          /\ InfoDict(f.violations[1]) # records[1].violations[1]

(***************************************************************************)
(* Properties of the guards of the fix loop.                               *)
(***************************************************************************)
\* a step of the for loop in which no tree is committed
CrawlWithoutCommit == pc = "crawl" /\ versions' = versions

\* C21 (as claimed): last_fixes is set to a rule's edit set only when the
\* tree that applying it gives is committed; when the result is rejected as
\* an oscillation last_fixes keeps its value.
C21_LastFixesOnlyOnCommit ==
    [][CrawlWithoutCommit => last_fixes' = last_fixes]_vars

\* C21 (amended): last_fixes is set to every edit set that passes the repeat
\* guard, before the edit set is applied: on a commit it is the committed edit
\* set, and when the result is rejected because its raw text is in
\* previous_versions last_fixes is the rejected edit set all the same, with
\* working and previous_versions unchanged.
C21_LastFixesSetBeforeApply ==
    [][pc = "crawl" =>
          /\ versions' # versions =>
                /\ last_fixes' # NoFixes
                /\ working' = ApplyFixes(working, last_fixes')
          /\ (last_fixes' # last_fixes /\ versions' = versions) =>
                /\ RawOf(ApplyFixes(working, last_fixes')) \in previous_versions
                /\ working' = working
                /\ previous_versions' = previous_versions
                /\ changed' = changed
          /\ last_fixes' # last_fixes =>
                /\ fix
                /\ last_fixes' # NoFixes
                /\ ~FixesEqual(last_fixes', last_fixes)]_vars

\* C21 witness: after a commit, last_fixes holds an edit set whose result is
\* not the working tree: the set of a later step that was rejected.
C21_Witness ==
    /\ Len(versions) >= 2
    /\ last_fixes # NoFixes
    /\ RawOf(ApplyFixes(working, last_fixes)) # RawOf(working)
    /\ RawOf(ApplyFixes(working, last_fixes)) \in previous_versions

\* the edit set the rule at hand proposes in this step (TwiceSpec keeps it)
Proposed == crawl_memo'[<<ruleset[crawler], working>>]

\* edit sets f and g have the same edits
SameEdits(f, g) ==
    Len(f) = Len(g) /\ \A i \in 1..Len(f) : f[i].id = g[i].id

\* with fix on, the rule at hand proposes a non-empty edit set equal to
\* last_fixes
RepeatProposed ==
    /\ pc = "crawl"
    /\ fix
    /\ Proposed # NoFixes
    /\ SameEdits(Proposed, last_fixes)

\* C22: with fix on, a non-empty edit set equal to last_fixes is not applied:
\* the step leaves working, previous_versions, last_fixes and changed as they
\* are; so with a rule list of one rule the iteration in which the rule
\* repeats its edit set ends with changed false, and the loop is left at the
\* end of that iteration.
C22_RepeatedFixNotApplied ==
    /\ [][RepeatProposed =>
             /\ UNCHANGED <<working, previous_versions, last_fixes, changed,
                            versions>>
             /\ Len(ruleset) = 1 => (pc' = "end_iter" /\ ~changed')]_vars
    /\ [][(pc = "end_iter" /\ ~changed) => pc' = "after_loop"]_vars

\* C22 witness: the one rule of the list proposed in iteration 2 the edit set
\* it had proposed in iteration 1, and iteration 2 is at its end.
C22_Witness ==
    /\ pc = "end_iter"
    /\ fix
    /\ Len(ruleset) = 1
    /\ fix_loop_idx = 2
    /\ round_skipped
    /\ last_fixes # NoFixes
    /\ <<ruleset[1], working>> \in DOMAIN crawl_memo
    /\ SameEdits(crawl_memo[<<ruleset[1], working>>], last_fixes)

\* the tree the one rule of the list makes of the parsed tree
Cured == ApplyFixes(ParsedTree, crawl_memo[<<ruleset[1], ParsedTree>>])

\* The one rule of the list proposes on the parsed tree a fix that gives a
\* tree with another raw text, and proposes nothing on that tree.
SelfCuringRule ==
    /\ Len(ruleset) = 1
    /\ <<ruleset[1], ParsedTree>> \in DOMAIN crawl_memo
    /\ RawOf(Cured) # RawOf(ParsedTree)
    /\ <<ruleset[1], Cured>> \in DOMAIN crawl_memo =>
           crawl_memo[<<ruleset[1], Cured>>] = NoFixes

\* C23: the loop is left at the end of the first iteration in which no tree
\* was committed, and goes on otherwise while the limit allows another
\* iteration; with fix on, a limit of at least 2 and one rule whose fix
\* removes its trigger, iteration 1 commits and the loop is left at the end of
\* iteration 2 with changed false.
C23_ExitAtFixpoint ==
    /\ [][pc = "end_iter" =>
             IF changed THEN pc' = "while" ELSE pc' = "after_loop"]_vars
    /\ [][pc = "while" =>
             IF fix_loop_idx + 1 <= loop_limit
             THEN pc' \in {"crawl", "end_iter"} /\ crawled' = crawled + 1
             ELSE pc' = "after_loop"]_vars
    /\ []((run = 1 /\ fix /\ loop_limit >= 2 /\ SelfCuringRule) =>
             /\ (pc = "end_iter" /\ fix_loop_idx = 1) =>
                    (changed /\ versions = <<ParsedTree, Cured>>)
             /\ LoopLeft =>
                    /\ exit_kind = "unchanged"
                    /\ fix_loop_idx = 2
                    /\ crawled = 2
                    /\ ~changed
                    /\ versions = <<ParsedTree, Cured>>)

\* C23 witness: the loop was left at the end of iteration 2 after the one
\* rule had fixed the parsed tree in iteration 1 and proposed nothing on the
\* fixed tree in iteration 2.
C23_Witness ==
    /\ pc = "after_loop"
    /\ run = 1
    /\ fix
    /\ loop_limit >= 2
    /\ SelfCuringRule
    /\ <<ruleset[1], Cured>> \in DOMAIN crawl_memo
    /\ fix_loop_idx = 2
    /\ exit_kind = "unchanged"

(***************************************************************************)
(* Properties of the sweep and the render step of fix_string.              *)
(***************************************************************************)
\* the sweep has its patches: they are lifted and deduped
PatchesReady == fs_pc \in {"sweep", "render", "returned"}

\* C24: the sweep visits the source-space patches in nondecreasing order of
\* the start of their source range, for every slice map, also where the
\* templated order and the source order differ.
C24_SweepInSourceOrder ==
    PatchesReady =>
        \A i \in 1..Len(patches), j \in 1..Len(patches) :
            i < j => patches[i].slice.start <= patches[j].slice.start

\* What the code orders: the patches are sorted by the start of their
\* templated range before they are lifted.
SortedInTemplatedOrder ==
    \A i \in 1..Len(templated_patches), j \in 1..Len(templated_patches) :
        i < j => templated_patches[i].slice.start <= templated_patches[j].slice.start

\* the text a slot of the slice buffer stands for: the replacement of the
\* patch it was appended for, the source text of its range for any other slot
SlotText(i) ==
    IF slot_patch[i] # 0
    THEN patches[slot_patch[i]].text
    ELSE Cut(templated_file.source_str, slice_buff[i])

\* C25: the returned string is, slot by slot, the replacement text of the
\* patch that created the slot and the original source text of every other
\* slot, also when two patches have the same source range.
C25_SlotsRenderTheirOwnText ==
    fs_pc = "returned" =>
        fix_string_result.str =
            Flatten([i \in 1..Len(slice_buff) |-> SlotText(i)])

\* two slots created by two patches with one range and two texts
TwinSlots ==
    \E i \in 1..Len(slot_patch), j \in 1..Len(slot_patch) :
        /\ i < j
        /\ slot_patch[i] # 0
        /\ slot_patch[j] # 0
        /\ slice_buff[i] = slice_buff[j]
        /\ patches[slot_patch[i]].text # patches[slot_patch[j]].text

\* a slot that no patch created and that has the range of a patch
BorrowedSlot ==
    \E i \in 1..Len(slot_patch) :
        slot_patch[i] = 0 /\ PatchFor(slice_buff[i], patches) # 0

\* The render step is right wherever the ranges tell the slots apart.
RenderedByOwnPatch ==
    (fs_pc = "returned" /\ ~TwinSlots /\ ~BorrowedSlot) =>
        fix_string_result.str =
            Flatten([i \in 1..Len(slice_buff) |-> SlotText(i)])

\* the patches the sweep skipped at lines 279-288: no slot was appended for them
Skipped ==
    {k \in 1..Len(patches) : \A i \in 1..Len(slot_patch) : slot_patch[i] # k}

\* C26: a skipped patch has no effect on the output: the render loop takes
\* the text of no slot of the slice buffer from it.
C26_SkippedPatchRenderedNowhere ==
    fs_pc = "returned" =>
        \A k \in Skipped :
            \A i \in 1..Len(slice_buff) : PatchFor(slice_buff[i], patches) # k

\* The sweep's part holds: the pass that skips a patch appends nothing after
\* the gap and the untouchable ranges before the patch, and leaves source_idx
\* where the untouchable ranges put it.
SkipLeavesBuffer ==
    [][(fs_pc = "sweep" /\ patch_idx <= Len(patches)) =>
          LET patch == patches[patch_idx]
              popped == PopUntouchables(untouchable_slices, slice_buff,
                                        source_idx, patch)
          IN  patch.slice.start < popped.idx =>
                  /\ slice_buff' = popped.buff
                  /\ source_idx' = popped.idx
                  /\ \A i \in 1..Len(slot_patch') : slot_patch'[i] # patch_idx]_vars

(***************************************************************************)
(* Properties of previous_versions and of the exits of the fix loop.       *)
(***************************************************************************)
\* the raw texts of the committed trees, the parsed tree's first
CommittedRaws == [i \in 1..Len(versions) |-> RawOf(versions[i])]

\* C27: working's raw text is in previous_versions, previous_versions only
\* grows, every commit adds a raw text that was not in it; so the committed
\* raw texts are pairwise different and there are |previous_versions| - 1
\* commits.
C27_VersionsNeverRepeat ==
    /\ [](pc # "idle" =>
            /\ RawOf(working) \in previous_versions
            /\ working = versions[Len(versions)]
            /\ \A i \in 1..Len(versions), j \in 1..Len(versions) :
                   CommittedRaws[i] = CommittedRaws[j] => i = j
            /\ previous_versions = {CommittedRaws[i] : i \in 1..Len(versions)}
            /\ Len(versions) - 1 = Cardinality(previous_versions) - 1)
    /\ [][/\ previous_versions \subseteq previous_versions'
          /\ working' # working =>
                 /\ RawOf(working') \notin previous_versions
                 /\ previous_versions' = previous_versions \cup {RawOf(working')}
                 /\ versions' = Append(versions, working')
          /\ working' = working => UNCHANGED <<previous_versions, versions>>]_vars

\* two commits and then a fix that led back to a committed text
C27_Witness ==
    /\ pc = "returned"
    /\ Len(versions) = 3
    /\ round_skipped
    /\ last_fixes # NoFixes
    /\ RawOf(ApplyFixes(working, last_fixes)) \in previous_versions

\* C28: whenever the loop is left, whatever the runaway limit, iteration 1 has
\* completed and the snapshot of the initial violations is taken, and
\* lint_string goes on to build the LintedFile instead of failing on the
\* unset snapshot.
C28_SnapshotSetOnEveryExit ==
    LoopLeft => (crawled >= 1 /\ initial_bound /\ pc # "raised")

\* With a limit of one or more the snapshot is taken before any exit.
SnapshotSetFromLimitOne ==
    (LoopLeft /\ loop_limit >= 1) =>
        (crawled >= 1 /\ initial_bound /\ pc # "raised")

(***************************************************************************)
(* Properties of fix_string on fixed trees.                                *)
(***************************************************************************)
\* the leaves of the tree fix_string is called on
TreeLeaves == tree.segments[1].segments

\* C29: for an untemplated file fix_string returns the raw text of the fixed
\* tree, whatever deletions, edits and insertions the tree took.
C29_UntemplatedFixIsTreeRaw ==
    (fs_pc = "returned" /\ templated_file = PlainFile) =>
        /\ fix_string_result.str = RawOf(tree)
        /\ fix_string_result.changed = (RawOf(tree) # PlainFile.source_str)

\* an untemplated file whose tree took an insertion and a deletion or an edit
C29_Witness ==
    /\ fs_pc = "returned"
    /\ templated_file = PlainFile
    /\ \E i \in 1..Len(TreeLeaves) : ~TreeLeaves[i].enriched
    /\ Len(TreeLeaves) <= Len(PlainTokens)
       \/ \E i \in 1..Len(TreeLeaves) :
              TreeLeaves[i].enriched
                  /\ ~Matches(TreeLeaves[i], PlainFile.templated_str)
    /\ fix_string_result.str # PlainFile.source_str

\* the edited templated leaves of the tree: enriched, not literal, no
\* children, a raw text that is not the text of their templated range
EditedTemplatedLeaves ==
    {i \in 1..Len(TreeLeaves) :
        LET seg == TreeLeaves[i] IN
        /\ seg.enriched
        /\ ~seg.is_literal
        /\ seg.segments = << >>
        /\ seg.templated_slice.start < seg.templated_slice.stop
        /\ seg.raw # Cut(templated_file.templated_str, seg.templated_slice)}

====
